---- MODULE Spec2Model ----
(***************************************************************************)
(* Model of claude_code_proxy.                                             *)
(*                                                                         *)
(* Spec is the streaming translator (src/conversion/response_converter.rs):*)
(* the generator that turns the backend's SSE line sequence into Claude    *)
(* SSE frames.  RegistrySpec is a provider (src/core/providers/openai.rs)  *)
(* serving concurrent complete, stream and cancel calls around its         *)
(* cancellation registry.  RequestSpec is the request translator           *)
(* (src/conversion/request_converter.rs) applied to one Claude request.    *)
(*                                                                         *)
(* Strings are sequences of one-character strings.  Option<T> is a         *)
(* sequence of length at most one: None is << >>, Some(x) is <<x>>.        *)
(***************************************************************************)
EXTENDS Integers, Sequences, FiniteSets, TLC

VARIABLES
    read,                \* the items openai_stream.next() has returned, in order
    unread,              \* the items the upstream holds after the loop's exit
    pc,                  \* position of the generator: start, loop, closing, done
    frames,              \* the frames yielded so far, in emission order
    current_tool_calls,  \* HashMap<usize, ToolCallState>
    tool_block_counter,  \* u32
    final_stop_reason,   \* &str
    usage_data,          \* the usage JSON object of the final message_delta
    active_requests,     \* the provider's HashMap<String, Arc<Notify>>
    lock,                \* the task holding the Mutex around active_requests
    task,                \* the calls in progress on the provider, one per task
    claude_request,      \* the ClaudeMessagesRequest handed to the request translator
    config,              \* the Config of the application state
    openai_request,      \* the OpenAIChatCompletionRequest it returns, once it has
    http_request,        \* the request a handler was called with: headers and body
    handler_pc,          \* position of the handler: idle, received, complete,
                         \* stream_setup, panicked, returned
    provider_calls,      \* the calls the handler has made on the provider
    http_response,       \* the response the handler returned, once it has
    heartbeat,           \* the Interval of the cancellation-aware translator: None
                         \* where there is none, else the parity of its ticks so far
    cancelled            \* the cancelled binding of the cancellation-aware translator

\* The provider's state.
provider_vars == <<active_requests, lock, task>>

\* The streaming translator's state.
translator_vars == <<read, unread, pc, frames, current_tool_calls,
                     tool_block_counter, final_stop_reason, usage_data>>

\* The request translator's input and output.
request_vars == <<claude_request, config, openai_request>>

\* The handler's input, position and output.
handler_vars == <<http_request, handler_pc, provider_calls, http_response>>

\* What the cancellation-aware translator holds besides the translator's state.
cancellation_vars == <<heartbeat, cancelled>>

vars == <<read, unread, pc, frames, current_tool_calls, tool_block_counter,
          final_stop_reason, usage_data, active_requests, lock, task,
          claude_request, config, openai_request,
          http_request, handler_pc, provider_calls, http_response,
          heartbeat, cancelled>>

\* The longest upstream item sequence that is enumerated.
MaxLines == 3

\* openai_stream as a whole: what the loop has read, then what it leaves unread.
input == read \o unread

None == << >>

Some(x) == <<x>>

IsSome(o) == o # None

Unwrap(o) == o[1]

text_block_index == 0

RECURSIVE Concat(_)
\* Concatenation of a sequence of strings.
Concat(ss) == IF ss = << >> THEN << >> ELSE Head(ss) \o Concat(Tail(ss))

(***************************************************************************)
(* JSON texts of tool-call arguments.  The alphabet is "{", "}", "1", " "  *)
(* and "k", where "k" stands for a quoted key followed by a colon.  The    *)
(* grammar is the part of JSON these characters can spell: whitespace,     *)
(* numbers 1, 11, ..., the empty object and one-key objects.               *)
(***************************************************************************)
RECURSIVE SkipWs(_, _)
\* The first position at or after i that holds no whitespace.
SkipWs(s, i) ==
    IF i <= Len(s) /\ s[i] = " " THEN SkipWs(s, i + 1) ELSE i

RECURSIVE NumEnd(_, _)
\* The position after the digits that start at i.
NumEnd(s, i) ==
    IF i <= Len(s) /\ s[i] = "1" THEN NumEnd(s, i + 1) ELSE i

RECURSIVE ParseValue(_, _)
\* The position after the JSON value that starts at i, or 0 if there is none.
ParseValue(s, i) ==
    IF i > Len(s) THEN 0
    ELSE IF s[i] = "1" THEN NumEnd(s, i)
    ELSE IF s[i] = "{" THEN
        LET j == SkipWs(s, i + 1) IN
        IF j > Len(s) THEN 0
        ELSE IF s[j] = "}" THEN j + 1
        ELSE IF s[j] = "k" THEN
            LET v == ParseValue(s, SkipWs(s, j + 1)) IN
            IF v = 0 THEN 0
            ELSE LET e == SkipWs(s, v) IN
                 IF e <= Len(s) /\ s[e] = "}" THEN e + 1 ELSE 0
        ELSE 0
    ELSE 0

\* serde_json::from_str::<Value>(s).is_ok(): one value, whitespace around it,
\* nothing after it.
IsJson(s) ==
    LET e == ParseValue(s, SkipWs(s, 1)) IN
    e # 0 /\ SkipWs(s, e) = Len(s) + 1

IsNotWs(c) == c # " "

\* The value serde_json::from_str returns for a text that parses: the text
\* without its insignificant whitespace.
JsonValue(s) == SelectSeq(s, IsNotWs)

(***************************************************************************)
(* The upstream items.  An item is Err(e) or Ok(line); a line is told      *)
(* apart by what the loop tests on it: blank after trim, not starting with *)
(* "data: ", the [DONE] sentinel, a payload that is not JSON, or a chunk.  *)
(* A chunk carries the fields of the JSON value the loop reads.            *)
(***************************************************************************)
Item(kind, usage, choices, content, tool_calls, finish_reason) ==
    [kind |-> kind, usage |-> usage, choices |-> choices, content |-> content,
     tool_calls |-> tool_calls, finish_reason |-> finish_reason]

Line(kind) == Item(kind, None, "absent", None, None, None)

\* A chunk with choices[0] = {delta: {content, tool_calls}, finish_reason}.
Chunk(usage, content, tool_calls, finish_reason) ==
    Item("chunk", usage, "some", content, tool_calls, finish_reason)

\* A chunk without a first choice: "choices" missing, or an empty array.
NoChoiceChunk(usage, choices) ==
    Item("chunk", usage, choices, None, None, None)

\* One entry of delta.tool_calls.
TcDelta(index, id, function) ==
    [index |-> index, id |-> id, function |-> function]

Func(name, arguments) == [name |-> name, arguments |-> arguments]

\* A "usage" value of a chunk; JSON null reads like an object with no field.
Usage(prompt, completion, cached) ==
    [prompt_tokens |-> prompt, completion_tokens |-> completion,
     cached_tokens |-> cached]

UsageNull == Usage(None, None, None)

FinishReasons == {"stop", "length", "tool_calls", "function_call", "content_filter"}

\* One text per chunk: empty, "a" (in a chunk that also carries "usage": null,
\* as a backend asked for usage sends it) and "b".

SkippedKinds == {"blank", "comment", "badjson"}

TextChunks ==
    { Chunk(None, Some(<< >>), None, None),
      Chunk(Some(UsageNull), Some(<<"a">>), None, None),
      Chunk(None, Some(<<"b">>), None, None) }

\* One chunk per finish reason; the one for "length" also carries text.
FinishChunks ==
    { Chunk(None, IF r = "length" THEN Some(<<"b">>) ELSE None, None, Some(r)) :
         r \in FinishReasons }

\* The usage-only chunks: "choices" empty or missing.
UsageChunks ==
    { NoChoiceChunk(Some(Usage(Some(5), Some(7), None)), "empty"),
      NoChoiceChunk(Some(Usage(Some(2), None, Some(1))), "absent") }

\* The entries of delta.tool_calls that are enumerated: the fields arrive
\* together or one by one, for backend index 0 (also when "index" is
\* missing) and for backend index 2.
TcDeltas ==
    { TcDelta(None, Some("t0"), Some(Func(Some("f"), None))),
      TcDelta(Some(2), Some("t2"), Some(Func(Some("g"), Some(<< >>)))),
      TcDelta(Some(2), Some("t2"), None),
      TcDelta(Some(2), None, Some(Func(Some("g"), Some(<<"1">>)))),
      TcDelta(Some(0), None, Some(Func(None, Some(<<"{", "k">>)))),
      TcDelta(None, None, Some(Func(None, Some(<<"1", "}">>)))),
      TcDelta(Some(0), None, Some(Func(None, Some(<<"1">>)))),
      TcDelta(None, None, Some(Func(None, Some(<<" ">>)))) }

ToolChunks ==
    { Chunk(None, None, Some(<<e>>), None) : e \in TcDeltas }
    \cup { Chunk(None, Some(<<"a">>),
             Some(<<TcDelta(Some(2), Some("t2"), Some(Func(Some("g"), Some(<<"1">>)))),
                    TcDelta(Some(0), Some("t0"), Some(Func(Some("f"), Some(<<"{", "}">>))))>>),
             Some("tool_calls")) }

Items ==
    { Line(k) : k \in SkippedKinds \cup {"done", "err"} }
    \cup TextChunks \cup FinishChunks \cup UsageChunks \cup ToolChunks

RECURSIVE SeqsUpTo(_, _)
\* The sequences over S of length at most n.
SeqsUpTo(S, n) ==
    IF n = 0 THEN { << >> }
    ELSE LET shorter == SeqsUpTo(S, n - 1) IN
         shorter \cup { Append(q, x) : q \in { r \in shorter : Len(r) = n - 1 }, x \in S }

(***************************************************************************)
(* The frames.  A frame is the event name and the fields of its JSON body  *)
(* that vary; fields a frame does not have are None.                       *)
(***************************************************************************)
Frame(event, index, type, text, id, name, stop_reason, usage) ==
    [event |-> event, index |-> index, type |-> type, text |-> text, id |-> id,
     name |-> name, stop_reason |-> stop_reason, usage |-> usage]

ZeroUsage ==
    [input_tokens |-> 0, output_tokens |-> 0, cache_read_input_tokens |-> None]

MessageStart ==
    Frame("message_start", None, "message", << >>, None, None, None, Some(ZeroUsage))

TextBlockStart ==
    Frame("content_block_start", Some(0), "text", << >>, None, None, None, None)

Ping == Frame("ping", None, "ping", << >>, None, None, None, None)

TextDelta(content_text) ==
    Frame("content_block_delta", Some(text_block_index), "text_delta", content_text,
          None, None, None, None)

ToolStart(claude_index, id, name) ==
    Frame("content_block_start", Some(claude_index), "tool_use", << >>, id, name,
          None, None)

InputJsonDelta(claude_idx, args_buffer) ==
    Frame("content_block_delta", Some(claude_idx), "input_json_delta", args_buffer,
          None, None, None, None)

ErrorEvent == Frame("error", None, "api_error", << >>, None, None, None, None)

ContentBlockStop(index) ==
    Frame("content_block_stop", Some(index), "content_block_stop", << >>, None, None,
          None, None)

MessageDelta(stop_reason, usage) ==
    Frame("message_delta", None, "message_delta", << >>, None, None,
          Some(stop_reason), Some(usage))

MessageStop == Frame("message_stop", None, "message_stop", << >>, None, None, None, None)

(***************************************************************************)
(* The main loop's handling of one chunk.                                  *)
(***************************************************************************)
NewToolCallState ==
    [id |-> None, name |-> None, args_buffer |-> << >>, json_sent |-> FALSE,
     claude_index |-> None, started |-> FALSE]

\* tc_delta.get("index").and_then(as_u64).unwrap_or(0)
TcIndex(tc_delta) == IF IsSome(tc_delta.index) THEN Unwrap(tc_delta.index) ELSE 0

\* The usage object built from a chunk's "usage" value.
DeriveUsage(usage) ==
    [input_tokens |->
        IF IsSome(usage.prompt_tokens) THEN Unwrap(usage.prompt_tokens) ELSE 0,
     output_tokens |->
        IF IsSome(usage.completion_tokens) THEN Unwrap(usage.completion_tokens) ELSE 0,
     cache_read_input_tokens |->
        Some(IF IsSome(usage.cached_tokens) THEN Unwrap(usage.cached_tokens) ELSE 0)]

\* Variant of MapFinishReason without the "function_call" arm (the unary
\* converter's table); FinishReasonMappedWhenRead must tell it apart.
MapFinishReasonUnary(reason) ==
    CASE reason = "length" -> "max_tokens"
      [] reason = "tool_calls" -> "tool_use"
      [] reason = "stop" -> "end_turn"
      [] OTHER -> "end_turn"

\* The stop reason a finish reason maps to.
MapFinishReason(reason) ==
    CASE reason = "length" -> "max_tokens"
      [] reason \in {"tool_calls", "function_call"} -> "tool_use"
      [] reason = "stop" -> "end_turn"
      [] OTHER -> "end_turn"

\* Variant of StartCondition that does not wait for the id; SlotInvariant
\* must tell it apart.
StartWithoutId(tool_call) == IsSome(tool_call.name) /\ ~tool_call.started

\* The start condition of a slot while an entry with a "function" is handled.
StartCondition(tool_call) ==
    IsSome(tool_call.id) /\ IsSome(tool_call.name) /\ ~tool_call.started

\* Variant of AppendCondition that buffers fragments before the slot has
\* started; JsonDeltaIsBufferAtSend must tell it apart.
AppendBeforeStart(tool_call, args) == args # << >>

\* The condition under which an argument fragment is appended to the buffer.
AppendCondition(tool_call, args) == tool_call.started /\ args # << >>

\* Variant of SendCondition that sends the buffer every time it parses;
\* AtMostOncePerToolCall must tell it apart.
SendWheneverJson(tool_call) ==
    IsJson(tool_call.args_buffer) /\ IsSome(tool_call.claude_index)

\* The condition under which the buffer is sent as one input_json_delta.
SendCondition(tool_call) ==
    IsJson(tool_call.args_buffer) /\ ~tool_call.json_sent /\ IsSome(tool_call.claude_index)

\* Variant of ClaudeIndex that reads the counter as it was before the
\* increment; IndexAssignment must tell it apart.
ClaudeIndexBeforeIncrement(counter) == text_block_index + counter - 1

\* The output index of the block a slot starts, given the counter after its
\* increment.
ClaudeIndex(counter) == text_block_index + counter

\* Variant of JsonFrames that closes the block as soon as its JSON is sent;
\* EventOrder must tell it apart.
JsonFramesThenStop(tool_call) ==
    <<InputJsonDelta(Unwrap(tool_call.claude_index), tool_call.args_buffer),
      ContentBlockStop(Unwrap(tool_call.claude_index))>>

\* The frames yielded when a slot's buffer is sent.
JsonFrames(tool_call) ==
    <<InputJsonDelta(Unwrap(tool_call.claude_index), tool_call.args_buffer)>>

\* The body of "for tc_delta in tool_calls" for one entry.  st holds the slot
\* map, the block counter and the frames yielded while the chunk is handled.
ProcessTcDelta(st, tc_delta) ==
    LET tc_index == TcIndex(tc_delta)
        slots == IF tc_index \in DOMAIN st.slots THEN st.slots
                 ELSE [k \in DOMAIN st.slots \cup {tc_index} |->
                          IF k = tc_index THEN NewToolCallState ELSE st.slots[k]]
        t0 == slots[tc_index]
        t1 == IF IsSome(tc_delta.id) THEN [t0 EXCEPT !.id = tc_delta.id] ELSE t0
    IN  IF ~IsSome(tc_delta.function)
        THEN [st EXCEPT !.slots = [slots EXCEPT ![tc_index] = t1]]
        ELSE
        LET func == Unwrap(tc_delta.function)
            t2 == IF IsSome(func.name) THEN [t1 EXCEPT !.name = func.name] ELSE t1
            start == StartCondition(t2)
            counter == IF start THEN st.counter + 1 ELSE st.counter
            claude_index == ClaudeIndex(counter)
            t3 == IF start
                  THEN [t2 EXCEPT !.claude_index = Some(claude_index), !.started = TRUE]
                  ELSE t2
            out3 == IF start
                    THEN Append(st.out, ToolStart(claude_index, t2.id, t2.name))
                    ELSE st.out
            append == IsSome(func.arguments) /\ AppendCondition(t3, Unwrap(func.arguments))
            t4 == IF append
                  THEN [t3 EXCEPT !.args_buffer = @ \o Unwrap(func.arguments)]
                  ELSE t3
            send == append /\ SendCondition(t4)
            t5 == IF send THEN [t4 EXCEPT !.json_sent = TRUE] ELSE t4
            out5 == IF send THEN out3 \o JsonFrames(t4) ELSE out3
        IN  [slots |-> [slots EXCEPT ![tc_index] = t5], counter |-> counter, out |-> out5]

RECURSIVE ProcessToolCalls(_, _)
\* The loop over the entries of delta.tool_calls, in order.
ProcessToolCalls(st, tool_calls) ==
    IF tool_calls = << >> THEN st
    ELSE ProcessToolCalls(ProcessTcDelta(st, Head(tool_calls)), Tail(tool_calls))

\* Variant of TextFrames that drops the text of a chunk that also carries a
\* finish reason; TextPreservedForReadChunks must tell it apart.
TextFramesUnlessFinish(chunk) ==
    IF IsSome(chunk.content) /\ Unwrap(chunk.content) # << >>
       /\ ~IsSome(chunk.finish_reason)
    THEN <<TextDelta(Unwrap(chunk.content))>>
    ELSE << >>

\* The text delta a chunk yields: one frame for a non-empty content string.
TextFrames(chunk) ==
    IF IsSome(chunk.content) /\ Unwrap(chunk.content) # << >>
    THEN <<TextDelta(Unwrap(chunk.content))>>
    ELSE << >>

\* Whether the chunk has a non-empty "choices" array.
HasChoice(chunk) == chunk.choices = "some"

\* The usage after the chunk's usage extraction.
UsageAfter(chunk, usage) ==
    IF IsSome(chunk.usage) THEN DeriveUsage(Unwrap(chunk.usage)) ELSE usage

\* Whether the loop breaks after this chunk.
\* Variant of BreaksLoop that leaves the loop at the finish reason stop
\* only; LoopExit must tell it apart.
BreaksLoopAtStop(chunk) == HasChoice(chunk) /\ chunk.finish_reason = Some("stop")


BreaksLoop(chunk) == HasChoice(chunk) /\ IsSome(chunk.finish_reason)

(***************************************************************************)
(* The request translator's data.                                          *)
(***************************************************************************)
\* The configured backend models and the model a request names when its
\* name is not what is enumerated.
small_model == <<"s", "m", "a", "l", "l">>

middle_model == <<"m", "i", "d">>

big_model == <<"b", "i", "g">>

claude_model == <<"c", "l", "a", "u", "d", "e">>

\* A ClaudeMessagesRequest, as far as the handler and the translation read it.
MessagesRequest(model, system, messages, max_tokens, stream, tools, tool_choice) ==
    [model |-> model, system |-> system, messages |-> messages,
     max_tokens |-> max_tokens, stream |-> stream, tools |-> tools,
     tool_choice |-> tool_choice]

\* A request without stream, tools and tool_choice members.
ClaudeMessagesRequest(system, messages, max_tokens) ==
    MessagesRequest(claude_model, system, messages, max_tokens, FALSE, None, None)

\* const DEFAULT_MAX_MESSAGES
DEFAULT_MAX_MESSAGES == 30

\* The configuration, as far as the handler and the translation read it.
FullConfig(anthropic_api_key, max_messages_limit, min_tokens_limit, max_tokens_limit, small, middle, big) ==
    [anthropic_api_key |-> anthropic_api_key, max_messages_limit |-> max_messages_limit,
     min_tokens_limit |-> min_tokens_limit, max_tokens_limit |-> max_tokens_limit,
     small_model |-> small, middle_model |-> middle, big_model |-> big]

\* The token limits of a configuration without a client key.
Config(min_tokens_limit, max_tokens_limit) ==
    FullConfig(None, DEFAULT_MAX_MESSAGES, min_tokens_limit, max_tokens_limit,
               small_model, middle_model, big_model)

\* The fields of an HTTP request the handlers read: the endpoint it was
\* routed to, the x-api-key and authorization headers, and the JSON body.
HttpRequest(endpoint, x_api_key, authorization, body) ==
    [endpoint |-> endpoint, x_api_key |-> x_api_key, authorization |-> authorization,
     body |-> body]

\* No handler is running.
NoHandler ==
    /\ http_request = HttpRequest("none", None, None,
                                  MessagesRequest(<< >>, None, << >>, 0, FALSE, None, None))
    /\ handler_pc = "idle"
    /\ provider_calls = << >>
    /\ http_response = None

\* No cancellation-aware translator has been started: there is no Interval,
\* and the cancelled binding has the value it is declared with.
NoHeartbeat ==
    /\ heartbeat = None
    /\ cancelled = FALSE

\* No request has been received: the translator is not running.
NoRequestYet ==
    /\ claude_request = ClaudeMessagesRequest(None, << >>, 0)
    /\ config = Config(0, 0)
    /\ openai_request = None

(***************************************************************************)
(* The provider's cancellation registry and the calls in progress on it.   *)
(***************************************************************************)
\* The number of tasks that call the provider concurrently.
MaxTasks == 2

\* The most lines one streamed body delivers.
MaxBodyLines == 1

Tasks == 1..MaxTasks

\* The request ids the callers use.
RequestIds == {"r1", "r2"}

\* Arc::new(Notify::new()): a Notify and the tasks waiting on it.
NewNotify == [waiters |-> {}]

\* A task not inside a call; result is what its last call returned.
IdleTask(result) ==
    [op |-> "none", request_id |-> None, pc |-> "idle", result |-> result,
     lines |-> 0, tick |-> FALSE]

\* A task entering the call op with the given request id.
CallingTask(op, request_id, at) ==
    [op |-> op, request_id |-> request_id, pc |-> at, result |-> "none",
     lines |-> 0, tick |-> FALSE]

\* The provider as its constructor leaves it: an empty registry, the mutex
\* free, no call in progress.
ProviderNew ==
    /\ active_requests = [id \in {} |-> NewNotify]
    /\ lock = None
    /\ task = [t \in Tasks |-> IdleTask("none")]

(***************************************************************************)
(* The generator.  The items are drawn as the loop reads them; when the    *)
(* loop breaks, what the upstream still holds is fixed as unread.          *)
(***************************************************************************)
\* The longest upstream item sequence that is enumerated behind a handler.
MaxHandlerLines == 1

\* The longest upstream item sequence that is enumerated for the
\* cancellation-aware translator on its own.
MaxSelectLines == 2

\* The longest upstream item sequence of the stream being translated.
LineLimit ==
    IF handler_pc # "idle" THEN MaxHandlerLines
    ELSE IF IsSome(heartbeat) THEN MaxSelectLines
    ELSE MaxLines

\* The items openai_stream.next() may return next.
NextItems == IF Len(read) < LineLimit THEN Items ELSE {}

\* The item sequences the upstream may still hold when the loop breaks after
\* n items.
LeftUnread(n) == SeqsUpTo(Items, LineLimit - n)

Init ==
    /\ read = << >>
    /\ unread = << >>
    /\ pc = "start"
    /\ frames = << >>
    /\ current_tool_calls = [k \in {} |-> NewToolCallState]
    /\ tool_block_counter = 0
    /\ final_stop_reason = "end_turn"
    /\ usage_data = ZeroUsage
    /\ ProviderNew
    /\ NoHandler
    /\ NoHeartbeat
    /\ NoRequestYet

\* The initial events, yielded before any item is read.
Prelude ==
    /\ pc = "start"
    /\ UNCHANGED <<provider_vars, request_vars, handler_vars, cancellation_vars>>
    /\ frames' = frames \o <<MessageStart, TextBlockStart, Ping>>
    /\ pc' = "loop"
    /\ UNCHANGED <<read, unread, current_tool_calls, tool_block_counter,
                   final_stop_reason, usage_data>>

\* Variant of StreamError that goes on reading after the error event
\* ("continue" for "break"); ErrorThenPostlude must tell it apart.
StreamErrorContinue ==
    /\ pc = "loop"
    /\ UNCHANGED <<provider_vars, request_vars, handler_vars, cancellation_vars>>
    /\ \E item \in NextItems :
          /\ item.kind = "err"
          /\ read' = Append(read, item)
    /\ frames' = Append(frames, ErrorEvent)
    /\ pc' = "loop"
    /\ UNCHANGED <<unread, current_tool_calls, tool_block_counter,
                   final_stop_reason, usage_data>>

\* openai_stream.next() returns Some(Err(e)): one error event, then break.
StreamError ==
    /\ pc = "loop"
    /\ UNCHANGED <<provider_vars, request_vars, handler_vars, cancellation_vars>>
    /\ \E item \in NextItems :
          /\ item.kind = "err"
          /\ read' = Append(read, item)
    /\ unread' \in LeftUnread(Len(read) + 1)
    /\ frames' = Append(frames, ErrorEvent)
    /\ pc' = "closing"
    /\ UNCHANGED <<current_tool_calls, tool_block_counter,
                   final_stop_reason, usage_data>>

\* Variant of StreamEnd that goes on polling an upstream that has ended;
\* Termination must tell it apart.
StreamEndSpins ==
    /\ pc = "loop"
    /\ UNCHANGED <<provider_vars, request_vars, handler_vars, cancellation_vars>>
    /\ UNCHANGED translator_vars

\* openai_stream.next() returns None: the loop ends.
StreamEnd ==
    /\ pc = "loop"
    /\ UNCHANGED <<provider_vars, request_vars, handler_vars, cancellation_vars>>
    /\ pc' = "closing"
    /\ UNCHANGED <<read, unread, frames, current_tool_calls, tool_block_counter,
                   final_stop_reason, usage_data>>

\* Variant of SkipLine that ends the loop at a line it cannot use;
\* RobustToSkippedLines must tell it apart.
SkipLineBreaks ==
    /\ pc = "loop"
    /\ UNCHANGED <<provider_vars, request_vars, handler_vars, cancellation_vars>>
    /\ \E item \in NextItems :
          /\ item.kind \in SkippedKinds
          /\ read' = Append(read, item)
    /\ pc' = "closing"
    /\ UNCHANGED <<unread, frames, current_tool_calls, tool_block_counter,
                   final_stop_reason, usage_data>>

\* A line that is blank after trim, does not start with "data: ", or whose
\* payload is not JSON: continue.
SkipLine ==
    /\ pc = "loop"
    /\ UNCHANGED <<provider_vars, request_vars, handler_vars, cancellation_vars>>
    /\ \E item \in NextItems :
          /\ item.kind \in SkippedKinds
          /\ read' = Append(read, item)
    /\ UNCHANGED <<unread, pc, frames, current_tool_calls, tool_block_counter,
                   final_stop_reason, usage_data>>

\* The payload is [DONE]: break.
DoneSentinel ==
    /\ pc = "loop"
    /\ UNCHANGED <<provider_vars, request_vars, handler_vars, cancellation_vars>>
    /\ \E item \in NextItems :
          /\ item.kind = "done"
          /\ read' = Append(read, item)
    /\ unread' \in LeftUnread(Len(read) + 1)
    /\ pc' = "closing"
    /\ UNCHANGED <<frames, current_tool_calls, tool_block_counter,
                   final_stop_reason, usage_data>>

\* A chunk: usage, then choices[0]: text delta, tool-call deltas, finish
\* reason.
ProcessChunk ==
    /\ pc = "loop"
    /\ UNCHANGED <<provider_vars, request_vars, handler_vars, cancellation_vars>>
    /\ \E chunk \in NextItems :
       LET tool_calls == IF IsSome(chunk.tool_calls) THEN Unwrap(chunk.tool_calls)
                         ELSE << >>
           st == ProcessToolCalls(
                    [slots |-> current_tool_calls, counter |-> tool_block_counter,
                     out |-> frames \o TextFrames(chunk)],
                    tool_calls)
       IN  /\ chunk.kind = "chunk"
           /\ read' = Append(read, chunk)
           /\ usage_data' = UsageAfter(chunk, usage_data)
           /\ IF HasChoice(chunk)
              THEN /\ frames' = st.out
                   /\ current_tool_calls' = st.slots
                   /\ tool_block_counter' = st.counter
                   /\ final_stop_reason' =
                         IF IsSome(chunk.finish_reason)
                         THEN MapFinishReason(Unwrap(chunk.finish_reason))
                         ELSE final_stop_reason
              ELSE UNCHANGED <<frames, current_tool_calls, tool_block_counter,
                               final_stop_reason>>
           /\ IF BreaksLoop(chunk)
              THEN /\ pc' = "closing"
                   /\ unread' \in LeftUnread(Len(read) + 1)
              ELSE UNCHANGED <<pc, unread>>

RECURSIVE Orders(_)
\* The orders in which the elements of a set can be visited.
Orders(S) ==
    IF S = {} THEN { << >> }
    ELSE UNION { { <<x>> \o o : o \in Orders(S \ {x}) } : x \in S }

\* Variant of StartedKeys that closes only the blocks whose JSON was sent;
\* FramingAtEnd must tell it apart.
StartedKeysJsonSent(slots) == { k \in DOMAIN slots : slots[k].json_sent }

\* The keys of the slots whose block was started.
StartedKeys(slots) == { k \in DOMAIN slots : slots[k].started }

\* Variant of ToolStops that closes each block under the OpenAI index of its
\* slot; PerSlotOrdering must tell it apart.
ToolStopsByOpenAiIndex(slots, order) ==
    [i \in 1..Len(order) |-> ContentBlockStop(order[i])]

\* The content_block_stop frames of the tool blocks, for one iteration order
\* of current_tool_calls.values().
ToolStops(slots, order) ==
    [i \in 1..Len(order) |-> ContentBlockStop(Unwrap(slots[order[i]].claude_index))]

\* The closing events: the HashMap is iterated in an order the code does not
\* control.
Postlude ==
    /\ pc = "closing"
    /\ UNCHANGED <<provider_vars, request_vars, handler_vars, cancellation_vars>>
    /\ \E order \in Orders(StartedKeys(current_tool_calls)) :
          frames' = frames
                    \o <<ContentBlockStop(text_block_index)>>
                    \o ToolStops(current_tool_calls, order)
                    \o <<MessageDelta(final_stop_reason, usage_data), MessageStop>>
    /\ pc' = "done"
    /\ UNCHANGED <<read, unread, current_tool_calls, tool_block_counter,
                   final_stop_reason, usage_data>>

Next ==
    \/ Prelude
    \/ StreamError
    \/ StreamEnd
    \/ SkipLine
    \/ DoneSentinel
    \/ ProcessChunk
    \/ Postlude

Spec == Init /\ [][Next]_vars

(***************************************************************************)
(* convert_openai_streaming_to_claude_with_cancellation: the same prelude, *)
(* loop body and closing events, with the loop turned into a select! over  *)
(* a 100 ms heartbeat and openai_stream.next(), and a test of cancelled    *)
(* after a chunk that did not end the iteration.                           *)
(***************************************************************************)
\* Variant of HeartbeatTick that sends a ping with every tick;
\* EquivalentTranslators must tell it apart.
HeartbeatTickPings ==
    /\ pc = "loop"
    /\ IsSome(heartbeat)
    /\ heartbeat' = Some(~Unwrap(heartbeat))
    /\ frames' = Append(frames, Ping)
    /\ UNCHANGED cancelled
    /\ UNCHANGED <<read, unread, pc, current_tool_calls, tool_block_counter,
                   final_stop_reason, usage_data>>
    /\ UNCHANGED <<provider_vars, request_vars, handler_vars>>

\* Variant of HeartbeatTick that takes the tick as the sign of a client
\* that went away and sets cancelled; NeverCancelled must tell it apart.
HeartbeatTickCancels ==
    /\ pc = "loop"
    /\ IsSome(heartbeat)
    /\ heartbeat' = Some(~Unwrap(heartbeat))
    /\ cancelled' = TRUE
    /\ UNCHANGED <<translator_vars, provider_vars, request_vars, handler_vars>>

\* select! takes the heartbeat branch: continue.
HeartbeatTick ==
    /\ pc = "loop"
    /\ IsSome(heartbeat)
    /\ heartbeat' = Some(~Unwrap(heartbeat))
    /\ UNCHANGED cancelled
    /\ UNCHANGED <<translator_vars, provider_vars, request_vars, handler_vars>>

\* select! takes the stream branch with a chunk: the body of ProcessChunk;
\* a chunk that reaches the end of the body is followed by
\* if cancelled { break }.
SelectChunk ==
    /\ pc = "loop"
    /\ UNCHANGED <<provider_vars, request_vars, handler_vars, cancellation_vars>>
    /\ \E chunk \in NextItems :
       LET tool_calls == IF IsSome(chunk.tool_calls) THEN Unwrap(chunk.tool_calls)
                         ELSE << >>
           st == ProcessToolCalls(
                    [slots |-> current_tool_calls, counter |-> tool_block_counter,
                     out |-> frames \o TextFrames(chunk)],
                    tool_calls)
       IN  /\ chunk.kind = "chunk"
           /\ read' = Append(read, chunk)
           /\ usage_data' = UsageAfter(chunk, usage_data)
           /\ IF HasChoice(chunk)
              THEN /\ frames' = st.out
                   /\ current_tool_calls' = st.slots
                   /\ tool_block_counter' = st.counter
                   /\ final_stop_reason' =
                         IF IsSome(chunk.finish_reason)
                         THEN MapFinishReason(Unwrap(chunk.finish_reason))
                         ELSE final_stop_reason
              ELSE UNCHANGED <<frames, current_tool_calls, tool_block_counter,
                               final_stop_reason>>
           /\ IF BreaksLoop(chunk) \/ (HasChoice(chunk) /\ cancelled)
              THEN /\ pc' = "closing"
                   /\ unread' \in LeftUnread(Len(read) + 1)
              ELSE UNCHANGED <<pc, unread>>

\* select! takes the stream branch: one of the outcomes of
\* openai_stream.next().
StreamBranch ==
    \/ StreamError
    \/ StreamEnd
    \/ SkipLine
    \/ DoneSentinel
    \/ SelectChunk

\* The generator of the cancellation-aware translator.
CancellationTranslator ==
    \/ Prelude
    \/ HeartbeatTick
    \/ StreamBranch
    \/ Postlude

\* The client goes away: the response body, and the generator in it, is
\* dropped where it stands and is never polled again.
Disconnect ==
    /\ pc \in {"start", "loop", "closing"}
    /\ pc' = "dropped"
    /\ UNCHANGED <<read, unread, frames, current_tool_calls, tool_block_counter,
                   final_stop_reason, usage_data>>
    /\ UNCHANGED <<provider_vars, request_vars, handler_vars, cancellation_vars>>

(***************************************************************************)
(* Reading the emitted frames.                                             *)
(***************************************************************************)
IsToolStart(f) == f.event = "content_block_start" /\ f.type = "tool_use"

IsInputJsonDelta(f) == f.event = "content_block_delta" /\ f.type = "input_json_delta"

IsTextDelta(f) == f.event = "content_block_delta" /\ f.type = "text_delta"

IsStop(f) == f.event = "content_block_stop"

IsError(f) == f.event = "error"

\* The positions of fs that hold the frame f.
PositionsOf(fs, f) == { i \in 1..Len(fs) : fs[i] = f }

ToolStartPositions(fs) == { i \in 1..Len(fs) : IsToolStart(fs[i]) }

StopPositions(fs) == { i \in 1..Len(fs) : IsStop(fs[i]) }

ErrorPositions(fs) == { i \in 1..Len(fs) : IsError(fs[i]) }

\* fs is a complete postlude for the tool blocks started in the frames
\* before: content_block_stop(0), one content_block_stop per started tool
\* block, message_delta, message_stop.
IsPostludeFor(fs, before) ==
    LET n == Len(fs) IN
    /\ n >= 3
    /\ fs[1] = ContentBlockStop(0)
    /\ fs[n - 1].event = "message_delta"
    /\ fs[n].event = "message_stop"
    /\ \A i \in 2..(n - 2) : IsStop(fs[i])
    /\ n - 3 = Cardinality(ToolStartPositions(before))
    /\ \A j \in ToolStartPositions(before) :
          Cardinality(PositionsOf(fs, ContentBlockStop(Unwrap(before[j].index)))) = 1

\* The items read so far include an upstream error.
ErrorRead == \E i \in 1..Len(read) : read[i].kind = "err"

(***************************************************************************)
(* C1: when the generator has finished, whatever the item sequence was,    *)
(* the frames begin with message_start, content_block_start(0), ping, end  *)
(* with message_delta, message_stop, and hold between them exactly one     *)
(* content_block_stop(0) and exactly one content_block_stop(i) for each    *)
(* tool block i that was started, and no other content_block_stop.         *)
(***************************************************************************)
FramingAtEnd ==
    pc = "done" =>
        LET n == Len(frames)
            between == 4..(n - 2)
        IN  /\ n >= 6
            /\ SubSeq(frames, 1, 3) = <<MessageStart, TextBlockStart, Ping>>
            /\ frames[n - 1].event = "message_delta"
            /\ frames[n].event = "message_stop"
            /\ Cardinality(PositionsOf(frames, ContentBlockStop(0)) \cap between) = 1
            /\ \A j \in ToolStartPositions(frames) :
                  Cardinality(PositionsOf(frames, ContentBlockStop(Unwrap(frames[j].index)))
                              \cap between) = 1
            /\ StopPositions(frames) \subseteq between
            /\ Cardinality(StopPositions(frames))
                  = 1 + Cardinality(ToolStartPositions(frames))

\* A finished stream that was ended by an upstream error after two tool
\* blocks were started.
FramingWitness ==
    /\ pc = "done"
    /\ Cardinality(ToolStartPositions(frames)) = 2
    /\ ErrorRead

(***************************************************************************)
(* C2: once an upstream error has been read, exactly one error frame has   *)
(* been emitted, no further item is read, and what follows the error frame *)
(* when the generator has finished is the complete postlude.               *)
(***************************************************************************)
ErrorThenPostlude ==
    \A i \in 1..Len(read) :
        read[i].kind = "err" =>
            /\ i = Len(read)
            /\ pc \in {"closing", "done"}
            /\ Cardinality(ErrorPositions(frames)) = 1
            /\ \A e \in ErrorPositions(frames) :
                  /\ pc = "closing" => e = Len(frames)
                  /\ pc = "done" =>
                        IsPostludeFor(SubSeq(frames, e + 1, Len(frames)),
                                      SubSeq(frames, 1, e))

\* A finished stream whose error came after a tool block was started and
\* before the last item of the input.
ErrorWitness ==
    /\ pc = "done"
    /\ ErrorRead
    /\ unread # << >>
    /\ ToolStartPositions(frames) # {}

\* The text fields of the emitted text deltas of block 0, concatenated in
\* emission order.
EmittedText ==
    LET IsText0(f) == IsTextDelta(f) /\ f.index = Some(0)
        deltas == SelectSeq(frames, IsText0)
    IN  Concat([i \in 1..Len(deltas) |-> deltas[i].text])

\* The delta.content strings of the chunks among items, concatenated in
\* arrival order (an empty string adds nothing).
ContentOf(items) ==
    Concat([i \in 1..Len(items) |->
               IF items[i].kind = "chunk" /\ IsSome(items[i].content)
               THEN Unwrap(items[i].content) ELSE << >>])

(***************************************************************************)
(* C3 as stated: when the generator has finished, the emitted text equals  *)
(* the concatenation of the delta.content strings of all chunks of the     *)
(* input stream.                                                           *)
(***************************************************************************)
TextPreservedForWholeInput ==
    pc = "done" => EmittedText = ContentOf(input)

(***************************************************************************)
(* C3 amended: at every point the emitted text equals the concatenation of *)
(* the delta.content strings of the chunks read so far; the chunks after   *)
(* the loop's exit (a finish reason, [DONE], an upstream error) are not    *)
(* read and add nothing.                                                   *)
(***************************************************************************)
TextPreservedForReadChunks == EmittedText = ContentOf(read)

\* A finished stream that carried "a", an empty content string and then "b"
\* in the chunk with the finish reason.
TextWitness ==
    /\ pc = "done"
    /\ EmittedText = <<"a", "b">>
    /\ \E i \in 1..Len(read) : read[i].content = Some(<< >>)
    /\ IsSome(read[Len(read)].finish_reason)

\* The entries of delta.tool_calls of the chunks among items, in arrival
\* order.
EntriesOf(items) ==
    Concat([i \in 1..Len(items) |->
               IF items[i].kind = "chunk" /\ IsSome(items[i].tool_calls)
               THEN Unwrap(items[i].tool_calls) ELSE << >>])

\* The entries among items that are for backend index k.
EntriesFor(items, k) ==
    LET IsForK(e) == (IF IsSome(e.index) THEN Unwrap(e.index) ELSE 0) = k
    IN  SelectSeq(EntriesOf(items), IsForK)

\* The function.arguments fragment of an entry (empty if it has none).
ArgumentsOf(e) ==
    IF IsSome(e.function) /\ IsSome(Unwrap(e.function).arguments)
    THEN Unwrap(Unwrap(e.function).arguments) ELSE << >>

\* The fragments of the entries es[a..b], concatenated.
ArgumentsFromTo(es, a, b) == Concat([i \in 1..(b - a + 1) |-> ArgumentsOf(es[a + i - 1])])

\* The frames of the given type that carry output index idx.
ToolStartsAt(idx) == { i \in 1..Len(frames) : IsToolStart(frames[i]) /\ frames[i].index = idx }

JsonDeltasAt(idx) ==
    { i \in 1..Len(frames) : IsInputJsonDelta(frames[i]) /\ frames[i].index = idx }

\* The backend indices whose slot holds the output index idx.
SlotsAt(idx) ==
    { k \in DOMAIN current_tool_calls : current_tool_calls[k].claude_index = idx }

(***************************************************************************)
(* C4: every tool_use content_block_start and every input_json_delta       *)
(* belongs to exactly one backend index k (the slot holding its output     *)
(* index), and for each k at most one of either has been emitted.          *)
(***************************************************************************)
AtMostOncePerToolCall ==
    /\ \A i \in 1..Len(frames) :
          (IsToolStart(frames[i]) \/ IsInputJsonDelta(frames[i])) =>
              Cardinality(SlotsAt(frames[i].index)) = 1
    /\ \A k \in DOMAIN current_tool_calls :
          LET idx == current_tool_calls[k].claude_index IN
          /\ Cardinality(ToolStartsAt(idx)) <= 1
          /\ Cardinality(JsonDeltasAt(idx)) <= 1

\* A slot whose JSON was sent and whose buffer, after a later fragment, is
\* complete JSON again, with the slot's name carried by two entries.
OncePerToolCallWitness ==
    \E k \in DOMAIN current_tool_calls :
        LET t == current_tool_calls[k]
            es == EntriesFor(read, k)
        IN  /\ t.json_sent
            /\ IsJson(t.args_buffer)
            /\ \E i \in JsonDeltasAt(t.claude_index) : frames[i].text # t.args_buffer
            /\ \E i, j \in 1..Len(es) :
                  /\ i < j
                  /\ IsSome(es[i].function) /\ IsSome(Unwrap(es[i].function).name)
                  /\ IsSome(es[j].function) /\ IsSome(Unwrap(es[j].function).name)

(***************************************************************************)
(* C5 as stated: the partial_json of an emitted input_json_delta for k     *)
(* parses to the same JSON as the concatenation of all function.arguments  *)
(* fragments the input stream carries for k.                               *)
(***************************************************************************)
JsonDeltaIsWholeArguments ==
    \A i \in 1..Len(frames) :
        IsInputJsonDelta(frames[i]) =>
            \A k \in SlotsAt(frames[i].index) :
                LET es == EntriesFor(input, k)
                    all == ArgumentsFromTo(es, 1, Len(es))
                IN  IsJson(all) /\ JsonValue(frames[i].text) = JsonValue(all)

\* The first entry of es at which the slot's start condition holds: the
\* entry has a "function", and an id and a function.name have arrived with
\* it or before it.  0 if there is none.
StartEntry(es) ==
    LET Starts(j) ==
            /\ IsSome(es[j].function)
            /\ \E i \in 1..j : IsSome(es[i].id)
            /\ \E i \in 1..j : IsSome(es[i].function) /\ IsSome(Unwrap(es[i].function).name)
        cands == { j \in 1..Len(es) : Starts(j) }
    IN  IF cands = {} THEN 0 ELSE CHOOSE j \in cands : \A h \in cands : j <= h

\* The first entry of es, at or after the start, that carries a fragment
\* and at which the fragments since the start form JSON.  0 if none.
SendEntry(es) ==
    LET s == StartEntry(es)
        cands == { j \in 1..Len(es) :
                     /\ s # 0 /\ j >= s
                     /\ ArgumentsOf(es[j]) # << >>
                     /\ IsJson(ArgumentsFromTo(es, s, j)) }
    IN  IF cands = {} THEN 0 ELSE CHOOSE j \in cands : \A h \in cands : j <= h

(***************************************************************************)
(* C5 amended: the partial_json of an emitted input_json_delta for k is    *)
(* JSON and is the concatenation of the fragments for k from the entry     *)
(* that started the slot to the first entry at which that concatenation    *)
(* parses; fragments before the start, after the emission or after the     *)
(* loop's exit are not in it.                                              *)
(***************************************************************************)
JsonDeltaIsBufferAtSend ==
    \A i \in 1..Len(frames) :
        IsInputJsonDelta(frames[i]) =>
            \A k \in SlotsAt(frames[i].index) :
                LET es == EntriesFor(read, k) IN
                /\ SendEntry(es) # 0
                /\ frames[i].text = ArgumentsFromTo(es, StartEntry(es), SendEntry(es))
                /\ IsJson(frames[i].text)

\* A slot whose JSON was sent from fragments "{k" and "1}" that arrived in
\* two entries after the entry that started it.
JsonDeltaWitness ==
    \E k \in DOMAIN current_tool_calls :
        LET es == EntriesFor(read, k) IN
        /\ current_tool_calls[k].json_sent
        /\ SendEntry(es) >= StartEntry(es) + 2
        /\ \E i \in JsonDeltasAt(current_tool_calls[k].claude_index) :
              frames[i].text = <<"{", "k", "1", "}">>

\* The position, among all entries read, of the entry at which the slot of
\* backend index k started (0 if it has not).
GlobalStartEntry(k) ==
    LET all == EntriesOf(read)
        s == StartEntry(EntriesFor(read, k))
        IsForK(e) == (IF IsSome(e.index) THEN Unwrap(e.index) ELSE 0) = k
        cands == { g \in 1..Len(all) :
                     /\ IsForK(all[g])
                     /\ Len(SelectSeq(SubSeq(all, 1, g), IsForK)) = s }
    IN  IF s = 0 \/ cands = {} THEN 0 ELSE CHOOSE g \in cands : TRUE

SlotInvariant ==
    LET slots == current_tool_calls IN
    /\ \A k \in DOMAIN slots :
          /\ slots[k].started =>
                IsSome(slots[k].id) /\ IsSome(slots[k].name) /\ IsSome(slots[k].claude_index)
          /\ slots[k].json_sent => slots[k].started
    /\ \A k1, k2 \in DOMAIN slots :
          (k1 # k2 /\ IsSome(slots[k1].claude_index)) =>
              slots[k1].claude_index # slots[k2].claude_index

\* A started slot whose JSON was sent, beside a slot that knows its name and
\* not yet its id.
SlotInvariantWitness ==
    \E k1, k2 \in DOMAIN current_tool_calls :
        /\ current_tool_calls[k1].started /\ current_tool_calls[k1].json_sent
        /\ ~current_tool_calls[k2].started
        /\ IsSome(current_tool_calls[k2].name)
        /\ ~IsSome(current_tool_calls[k2].id)

\* The finish reasons carried by the chunks among items.
FinishReasonsOf(items) ==
    { Unwrap(items[i].finish_reason) :
        i \in { j \in 1..Len(items) :
                  items[j].kind = "chunk" /\ IsSome(items[j].finish_reason) } }

\* The mapping table of the claim.
ExpectedStopReason(r) ==
    IF r = "length" THEN "max_tokens"
    ELSE IF r \in {"tool_calls", "function_call"} THEN "tool_use"
    ELSE "end_turn"

\* The emitted message_delta frames.
MessageDeltas == SelectSeq(frames, LAMBDA f : f.event = "message_delta")

(***************************************************************************)
(* C8 as stated: when the generator has finished on an input whose only    *)
(* finish reason is r, the message_delta carries the stop reason the table *)
(* gives for r.                                                            *)
(***************************************************************************)
FinishReasonMappedForWholeInput ==
    pc = "done" =>
        \A r \in FinishReasons :
            FinishReasonsOf(input) = {r} =>
                /\ Len(MessageDeltas) = 1
                /\ MessageDeltas[1].stop_reason = Some(ExpectedStopReason(r))

(***************************************************************************)
(* C8 amended: the same, for an input whose only finish reason is r and    *)
(* in which the chunk carrying r is read, that is, no [DONE] sentinel and  *)
(* no upstream error comes before it.                                      *)
(***************************************************************************)
FinishReasonMappedWhenRead ==
    pc = "done" =>
        \A r \in FinishReasons :
            (FinishReasonsOf(input) = {r} /\ FinishReasonsOf(read) # {}) =>
                /\ Len(MessageDeltas) = 1
                /\ MessageDeltas[1].stop_reason = Some(ExpectedStopReason(r))

\* A finished stream whose third item carried the only finish reason,
\* function_call, reported as tool_use.
FinishReasonWitness ==
    /\ pc = "done"
    /\ Len(read) = 3
    /\ FinishReasonsOf(input) = {"function_call"}
    /\ FinishReasonsOf(read) = {"function_call"}
    /\ MessageDeltas[1].stop_reason = Some("tool_use")

\* The token counts the claim derives from a chunk's "usage" value (a
\* missing count, and every count of "usage": null, reads as 0).
ExpectedTokens(u) ==
    [input_tokens |-> IF u.prompt_tokens = << >> THEN 0 ELSE u.prompt_tokens[1],
     output_tokens |-> IF u.completion_tokens = << >> THEN 0 ELSE u.completion_tokens[1]]

\* The positions of the chunks among items that carry "usage".
UsagePositions(items) ==
    { i \in 1..Len(items) : items[i].kind = "chunk" /\ items[i].usage # << >> }

(***************************************************************************)
(* C9: when the generator has finished, the input_tokens and output_tokens *)
(* of the message_delta's usage are those derived from the last chunk of   *)
(* the input stream that carries usage, and 0 and 0 if no chunk carries    *)
(* any.                                                                    *)
(***************************************************************************)
UsageIsLastOfInput ==
    pc = "done" =>
        LET at == UsagePositions(input)
            last == CHOOSE i \in at : \A j \in at : j <= i
            expected == IF at = {} THEN [input_tokens |-> 0, output_tokens |-> 0]
                        ELSE ExpectedTokens(input[last].usage[1])
        IN  /\ Len(MessageDeltas) = 1
            /\ MessageDeltas[1].usage[1].input_tokens = expected.input_tokens
            /\ MessageDeltas[1].usage[1].output_tokens = expected.output_tokens

(***************************************************************************)
(* C10: while no upstream error has been read, no content_block_stop,      *)
(* message_delta or message_stop is emitted before the generator has       *)
(* finished, and then the event names are message_start,                   *)
(* content_block_start, ping, any number of content_block_delta and        *)
(* content_block_start, one or more content_block_stop, message_delta,     *)
(* message_stop.                                                           *)
(***************************************************************************)
EventOrder ==
    ~ErrorRead =>
        LET n == Len(frames)
            ev == [i \in 1..n |-> frames[i].event]
            stops == { i \in 1..n : ev[i] = "content_block_stop" }
            first == CHOOSE i \in stops : \A j \in stops : i <= j
        IN  /\ pc # "done" =>
                  \A i \in 1..n :
                      ev[i] \notin {"content_block_stop", "message_delta", "message_stop"}
            /\ pc = "done" =>
                  /\ n >= 6
                  /\ ev[1] = "message_start"
                  /\ ev[2] = "content_block_start"
                  /\ ev[3] = "ping"
                  /\ stops # {}
                  /\ \A i \in 4..(first - 1) :
                        ev[i] \in {"content_block_delta", "content_block_start"}
                  /\ \A i \in first..(n - 2) : ev[i] = "content_block_stop"
                  /\ ev[n - 1] = "message_delta"
                  /\ ev[n] = "message_stop"

\* A finished stream without error that emitted a text delta, a tool block
\* start and its JSON, and closed two blocks.
EventOrderWitness ==
    /\ pc = "done"
    /\ ~ErrorRead
    /\ \E i, j, h \in 4..Len(frames) :
          /\ i < j /\ j < h
          /\ IsTextDelta(frames[i])
          /\ IsToolStart(frames[j])
          /\ IsInputJsonDelta(frames[h])
    /\ Cardinality(StopPositions(frames)) = 2
(***************************************************************************)
(* C11: for every started tool slot with output index idx, the frames      *)
(* carrying idx are content_block_start(idx), then zero or one             *)
(* input_json_delta(idx), and, once the generator has finished, exactly    *)
(* one content_block_stop(idx) after them; an input_json_delta(idx) never  *)
(* precedes content_block_start(idx).                                      *)
(***************************************************************************)
\* What a frame is, as far as the order within one block goes.
FrameKind(f) ==
    IF IsToolStart(f) THEN "start"
    ELSE IF IsInputJsonDelta(f) THEN "json"
    ELSE IF IsStop(f) THEN "stop"
    ELSE "other"

\* The kinds of the emitted frames that carry idx, in emission order.
KindsAt(idx) ==
    LET at == SelectSeq(frames, LAMBDA f : f.index = Some(idx))
    IN  [i \in 1..Len(at) |-> FrameKind(at[i])]

PerSlotOrdering ==
    \A k \in DOMAIN current_tool_calls :
        current_tool_calls[k].started =>
            LET kinds == KindsAt(Unwrap(current_tool_calls[k].claude_index))
            IN  IF pc = "done"
                THEN kinds \in { <<"start", "stop">>, <<"start", "json", "stop">> }
                ELSE kinds \in { <<"start">>, <<"start", "json">> }

\* Finished with two started slots, one whose JSON was sent and one whose
\* buffer never parsed.
PerSlotOrderingWitness ==
    /\ pc = "done"
    /\ \E k1, k2 \in DOMAIN current_tool_calls :
          /\ current_tool_calls[k1].started
          /\ current_tool_calls[k1].json_sent
          /\ current_tool_calls[k2].started
          /\ ~current_tool_calls[k2].json_sent
          /\ current_tool_calls[k2].args_buffer # << >>

(***************************************************************************)
(* C12: when the generator has finished, the first content_block_stop      *)
(* carries index 0 and the content_block_stop frames of the started tool   *)
(* slots follow in the order in which the slots were inserted into         *)
(* current_tool_calls.                                                     *)
(***************************************************************************)
\* The position, among the tool-call entries read, of the entry that
\* inserted the slot of backend index k.
InsertedAt(k) ==
    LET all == EntriesOf(read)
        IsForK(e) == (IF IsSome(e.index) THEN Unwrap(e.index) ELSE 0) = k
    IN  CHOOSE g \in 1..Len(all) :
            /\ IsForK(all[g])
            /\ \A h \in 1..(g - 1) : ~IsForK(all[h])

\* The slot that holds the output index idx.
SlotOf(idx) == CHOOSE k \in SlotsAt(idx) : TRUE

StopsInInsertionOrder ==
    pc = "done" =>
        LET stops == SelectSeq(frames, IsStop)
        IN  /\ stops[1].index = Some(text_block_index)
            /\ \A i, j \in 2..Len(stops) :
                  i < j => InsertedAt(SlotOf(stops[i].index))
                             < InsertedAt(SlotOf(stops[j].index))

(***************************************************************************)
(* C13: a step that reads a blank line, a line without the "data: " prefix *)
(* or a data line whose payload is not JSON emits no frame, leaves the     *)
(* tool slots, tool_block_counter, final_stop_reason and usage_data        *)
(* unchanged and stays in the loop; and the framing of C1 holds for the    *)
(* inputs in which such lines were read.                                   *)
(***************************************************************************)
\* The step reads a line the loop skips.
SkippedLineStep ==
    /\ Len(read') = Len(read) + 1
    /\ read'[Len(read')].kind \in SkippedKinds

\* A skipped line was read.
SkippedLineRead == \E i \in 1..Len(read) : read[i].kind \in SkippedKinds

RobustToSkippedLines ==
    /\ [][SkippedLineStep =>
             /\ frames' = frames
             /\ current_tool_calls' = current_tool_calls
             /\ tool_block_counter' = tool_block_counter
             /\ final_stop_reason' = final_stop_reason
             /\ usage_data' = usage_data
             /\ pc' = "loop"]_vars
    /\ [](SkippedLineRead => FramingAtEnd)

\* Finished after a skipped line was read between two chunks, with a tool
\* block started.
RobustWitness ==
    /\ pc = "done"
    /\ ToolStartPositions(frames) # {}
    /\ \E i \in 2..(Len(read) - 1) :
          /\ read[i].kind \in SkippedKinds
          /\ read[i - 1].kind = "chunk"
          /\ read[i + 1].kind = "chunk"

(***************************************************************************)
(* The provider: create_chat_completion, create_chat_completion_stream and *)
(* cancel_request, called by concurrent tasks.  A step is what a task does *)
(* between two awaits.                                                     *)
(***************************************************************************)
\* The tasks inside create_chat_completion or create_chat_completion_stream
\* with the request id rid.
RequestsWith(rid) ==
    { t \in Tasks : task[t].op \in {"complete", "stream"} /\ task[t].request_id = Some(rid) }

\* The request ids a caller may pass: None, or an id no request in progress
\* carries (the handler draws a fresh uuid per request).
FreshRequestIds == { None } \cup { Some(rid) : rid \in { r \in RequestIds : RequestsWith(r) = {} } }

\* Where a call starts: at the registry insert if an id was passed, else at
\* the HTTP send.
EntryPoint(request_id) == IF IsSome(request_id) THEN "lock_insert" ELSE "send"

\* create_chat_completion(request, request_id) is called.
CallComplete(t) ==
    /\ task[t].pc = "idle"
    /\ \E request_id \in FreshRequestIds :
          task' = [task EXCEPT ![t] = CallingTask("complete", request_id, EntryPoint(request_id))]
    /\ UNCHANGED <<active_requests, lock>>
    /\ UNCHANGED <<translator_vars, request_vars, handler_vars, cancellation_vars>>

\* create_chat_completion_stream(request, request_id) is called.
CallStream(t) ==
    /\ task[t].pc = "idle"
    /\ \E request_id \in FreshRequestIds :
          task' = [task EXCEPT ![t] = CallingTask("stream", request_id, EntryPoint(request_id))]
    /\ UNCHANGED <<active_requests, lock>>
    /\ UNCHANGED <<translator_vars, request_vars, handler_vars, cancellation_vars>>

\* cancel_request(request_id) is called.
CallCancel(t) ==
    /\ task[t].pc = "idle"
    /\ \E rid \in RequestIds :
          task' = [task EXCEPT ![t] = CallingTask("cancel", Some(rid), "lock_get")]
    /\ UNCHANGED <<active_requests, lock>>
    /\ UNCHANGED <<translator_vars, request_vars, handler_vars, cancellation_vars>>

\* Variant of Insert that keeps the MutexGuard in a binding, so that it lives
\* across the HTTP call; LockNotHeldAcrossIo must tell it apart.
InsertKeepsGuard(t) ==
    /\ task[t].pc = "insert"
    /\ lock = Some(t)
    /\ active_requests' =
          [id \in DOMAIN active_requests \cup {Unwrap(task[t].request_id)} |->
              IF id = Unwrap(task[t].request_id) THEN NewNotify ELSE active_requests[id]]
    /\ task' = [task EXCEPT ![t].pc = "send"]
    /\ UNCHANGED lock
    /\ UNCHANGED <<translator_vars, request_vars, handler_vars, cancellation_vars>>

\* self.active_requests.lock().await returns the guard: the mutex was free.
LockInsert(t) ==
    /\ task[t].pc = "lock_insert"
    /\ lock = None
    /\ lock' = Some(t)
    /\ task' = [task EXCEPT ![t].pc = "insert"]
    /\ UNCHANGED active_requests
    /\ UNCHANGED <<translator_vars, request_vars, handler_vars, cancellation_vars>>

\* .insert(id.clone(), notify.clone()); the guard is dropped with the
\* statement.
Insert(t) ==
    /\ task[t].pc = "insert"
    /\ lock = Some(t)
    /\ active_requests' =
          [id \in DOMAIN active_requests \cup {Unwrap(task[t].request_id)} |->
              IF id = Unwrap(task[t].request_id) THEN NewNotify ELSE active_requests[id]]
    /\ lock' = None
    /\ task' = [task EXCEPT ![t].pc = "send"]
    /\ UNCHANGED <<translator_vars, request_vars, handler_vars, cancellation_vars>>

\* Variant of AfterBackend that returns an error at once, as the ? of
\* create_chat_completion_stream does; EntryHeldDuringComplete must tell it
\* apart.
AfterBackendReturnsErrors(tk, result) ==
    IF IsSome(tk.request_id) /\ result = "ok"
    THEN [tk EXCEPT !.pc = "lock_remove", !.result = result]
    ELSE IdleTask(result)

\* create_chat_completion after send_completion_request has returned result:
\* the removal if an id was passed, then the return of result.
AfterBackend(tk, result) ==
    IF IsSome(tk.request_id)
    THEN [tk EXCEPT !.pc = "lock_remove", !.result = result]
    ELSE IdleTask(result)

\* .send().await fails: send_completion_request returns the error;
\* create_chat_completion_stream returns it through the ? operator.
SendFails(t) ==
    /\ task[t].pc = "send"
    /\ task' = [task EXCEPT ![t] = IF task[t].op = "complete"
                                   THEN AfterBackend(task[t], "err")
                                   ELSE IdleTask("err")]
    /\ UNCHANGED <<active_requests, lock>>
    /\ UNCHANGED <<translator_vars, request_vars, handler_vars, cancellation_vars>>

\* .send().await returns a response.  A failure status: the error text is
\* read next.  Success: the JSON body is read next, or, for a stream, the
\* line stream is returned and the translator starts reading the body.
SendResponds(t) ==
    /\ task[t].pc = "send"
    /\ \E success \in BOOLEAN :
          task' = [task EXCEPT ![t] =
                      IF ~success THEN [task[t] EXCEPT !.pc = "read_text"]
                      ELSE IF task[t].op = "complete"
                           THEN [task[t] EXCEPT !.pc = "read_json"]
                           ELSE [task[t] EXCEPT !.pc = "body", !.result = "ok"]]
    /\ UNCHANGED <<active_requests, lock>>
    /\ UNCHANGED <<translator_vars, request_vars, handler_vars, cancellation_vars>>

\* response.text().await or response.json().await returns: the error of the
\* failure status, or the completion or a parse error.
ReadDone(t) ==
    /\ task[t].pc \in {"read_text", "read_json"}
    /\ \E result \in (IF task[t].pc = "read_json" THEN {"ok", "err"} ELSE {"err"}) :
          task' = [task EXCEPT ![t] = IF task[t].op = "complete"
                                       THEN AfterBackend(task[t], result)
                                       ELSE IdleTask(result)]
    /\ UNCHANGED <<active_requests, lock>>
    /\ UNCHANGED <<translator_vars, request_vars, handler_vars, cancellation_vars>>

\* self.active_requests.lock().await returns the guard: the mutex was free.
LockRemove(t) ==
    /\ task[t].pc = "lock_remove"
    /\ lock = None
    /\ lock' = Some(t)
    /\ task' = [task EXCEPT ![t].pc = "remove"]
    /\ UNCHANGED active_requests
    /\ UNCHANGED <<translator_vars, request_vars, handler_vars, cancellation_vars>>

\* Variant of Remove that clears the registry instead of removing the one
\* key; RegistryIsolation must tell it apart.
RemoveClearsRegistry(t) ==
    /\ task[t].pc = "remove"
    /\ lock = Some(t)
    /\ active_requests' = [id \in {} |-> NewNotify]
    /\ lock' = None
    /\ task' = [task EXCEPT ![t] = IdleTask(task[t].result)]
    /\ UNCHANGED <<translator_vars, request_vars, handler_vars, cancellation_vars>>

\* .remove(&id); the guard is dropped with the statement and result is
\* returned.
Remove(t) ==
    /\ task[t].pc = "remove"
    /\ lock = Some(t)
    /\ active_requests' =
          [id \in DOMAIN active_requests \ {Unwrap(task[t].request_id)} |->
              active_requests[id]]
    /\ lock' = None
    /\ task' = [task EXCEPT ![t] = IdleTask(task[t].result)]
    /\ UNCHANGED <<translator_vars, request_vars, handler_vars, cancellation_vars>>

\* The translator's select! takes the heartbeat branch: continue.
Heartbeat(t) ==
    /\ task[t].pc = "body"
    /\ task' = [task EXCEPT ![t].tick = ~task[t].tick]
    /\ UNCHANGED <<active_requests, lock>>
    /\ UNCHANGED <<translator_vars, request_vars, handler_vars, cancellation_vars>>

\* The body delivers a line to the translator; a line with a finish_reason
\* or [DONE] breaks its loop.
BodyLine(t) ==
    /\ task[t].pc = "body"
    /\ task[t].lines < MaxBodyLines
    /\ \E breaks \in BOOLEAN :
          task' = [task EXCEPT ![t].lines = task[t].lines + 1,
                               ![t].pc = IF breaks THEN "closing" ELSE "body"]
    /\ UNCHANGED <<active_requests, lock>>
    /\ UNCHANGED <<translator_vars, request_vars, handler_vars, cancellation_vars>>

\* The backend closes the body or the read fails: the translator's loop
\* breaks.
BodyEnds(t) ==
    /\ task[t].pc = "body"
    /\ task' = [task EXCEPT ![t].pc = "closing"]
    /\ UNCHANGED <<active_requests, lock>>
    /\ UNCHANGED <<translator_vars, request_vars, handler_vars, cancellation_vars>>

\* The translator yields its closing events and ends; the stream is
\* dropped with the response.
Closing(t) ==
    /\ task[t].pc = "closing"
    /\ task' = [task EXCEPT ![t] = IdleTask("ended")]
    /\ UNCHANGED <<active_requests, lock>>
    /\ UNCHANGED <<translator_vars, request_vars, handler_vars, cancellation_vars>>

\* The client goes away: the response and the stream in it are dropped
\* before the translator has ended.
DropStream(t) ==
    /\ task[t].pc \in {"body", "closing"}
    /\ task' = [task EXCEPT ![t] = IdleTask("dropped")]
    /\ UNCHANGED <<active_requests, lock>>
    /\ UNCHANGED <<translator_vars, request_vars, handler_vars, cancellation_vars>>

\* self.active_requests.lock().await returns the guard: the mutex was free.
LockGet(t) ==
    /\ task[t].pc = "lock_get"
    /\ lock = None
    /\ lock' = Some(t)
    /\ task' = [task EXCEPT ![t].pc = "get"]
    /\ UNCHANGED active_requests
    /\ UNCHANGED <<translator_vars, request_vars, handler_vars, cancellation_vars>>

\* The tasks notify.notify_waiters() wakes.  No call ever waits on its
\* Notify (create_chat_completion_stream drops cancel_notify,
\* send_completion_request ignores _cancel_notify), so there are none.
Woken(notify) == notify.waiters

\* .get(request_id): if found, notify_waiters() and true, else false; the
\* guard is dropped at the end of the if let.
CancelGet(t) ==
    /\ task[t].pc = "get"
    /\ lock = Some(t)
    /\ LET request_id == Unwrap(task[t].request_id)
           found == request_id \in DOMAIN active_requests
           woken == IF found THEN Woken(active_requests[request_id]) ELSE {}
       IN  task' = [u \in Tasks |->
                      IF u = t THEN IdleTask(IF found THEN "true" ELSE "false")
                      ELSE IF u \in woken THEN [task[u] EXCEPT !.pc = "closing"]
                      ELSE task[u]]
    /\ lock' = None
    /\ UNCHANGED active_requests
    /\ UNCHANGED <<translator_vars, request_vars, handler_vars, cancellation_vars>>

\* The translator's state while the provider is looked at on its own.
RegistryInit ==
    /\ ProviderNew
    /\ NoHandler
    /\ NoHeartbeat
    /\ read = << >>
    /\ unread = << >>
    /\ pc = "start"
    /\ frames = << >>
    /\ current_tool_calls = [k \in {} |-> NewToolCallState]
    /\ tool_block_counter = 0
    /\ final_stop_reason = "end_turn"
    /\ usage_data = ZeroUsage
    /\ NoRequestYet

RegistryNext ==
    \/ \E t \in Tasks : CallComplete(t)
    \/ \E t \in Tasks : CallStream(t)
    \/ \E t \in Tasks : CallCancel(t)
    \/ \E t \in Tasks : LockInsert(t)
    \/ \E t \in Tasks : Insert(t)
    \/ \E t \in Tasks : SendFails(t)
    \/ \E t \in Tasks : SendResponds(t)
    \/ \E t \in Tasks : ReadDone(t)
    \/ \E t \in Tasks : LockRemove(t)
    \/ \E t \in Tasks : Remove(t)
    \/ \E t \in Tasks : Heartbeat(t)
    \/ \E t \in Tasks : BodyLine(t)
    \/ \E t \in Tasks : BodyEnds(t)
    \/ \E t \in Tasks : Closing(t)
    \/ \E t \in Tasks : DropStream(t)
    \/ \E t \in Tasks : LockGet(t)
    \/ \E t \in Tasks : CancelGet(t)

RegistrySpec == RegistryInit /\ [][RegistryNext]_vars

\* What the scheduler guarantees: a task that can run its own code runs it
\* (the mutex is granted when free, the heartbeat fires, the closing events
\* are yielded).  Nothing is assumed of callers, the backend or the client.
TaskProgress(t) ==
    /\ WF_vars(LockInsert(t))
    /\ WF_vars(Insert(t))
    /\ WF_vars(LockRemove(t))
    /\ WF_vars(Remove(t))
    /\ WF_vars(LockGet(t))
    /\ WF_vars(CancelGet(t))
    /\ WF_vars(Heartbeat(t))
    /\ WF_vars(Closing(t))

FairRegistrySpec == RegistrySpec /\ \A t \in Tasks : TaskProgress(t)

(***************************************************************************)
(* C14: the registry holds an entry only for request ids of calls in       *)
(* progress: once a streaming request has exited (setup failure, stream    *)
(* consumed, stream dropped) the registry holds no entry for its id.       *)
(***************************************************************************)
NoEntryAfterExit ==
    \A rid \in DOMAIN active_requests : RequestsWith(rid) # {}

(***************************************************************************)
(* C15: while create_chat_completion called with an id is in its backend   *)
(* call the registry holds an entry for the id; when it returns, with a    *)
(* completion or with any error, the registry holds none; and no step of   *)
(* a create_chat_completion called without an id changes the registry.     *)
(***************************************************************************)
\* The awaits on the backend: the HTTP send, the response read, the
\* streamed-body read.
IoPoints == {"send", "read_text", "read_json", "body"}

EntryHeldDuringComplete ==
    /\ [](\A t \in Tasks :
            (/\ task[t].op = "complete"
             /\ IsSome(task[t].request_id)
             /\ task[t].pc \in IoPoints) =>
                Unwrap(task[t].request_id) \in DOMAIN active_requests)
    /\ [][\A t \in Tasks :
            /\ (/\ task[t].op = "complete"
                /\ IsSome(task[t].request_id)
                /\ task'[t].pc = "idle") =>
                    Unwrap(task[t].request_id) \notin DOMAIN active_requests'
            /\ (/\ task[t] # task'[t]
                /\ "complete" \in {task[t].op, task'[t].op}
                /\ task[t].request_id = None
                /\ task'[t].request_id = None) =>
                    active_requests' = active_requests]_vars

\* A create_chat_completion with an id is about to remove its entry after
\* the backend call failed.
EntryHeldWitness ==
    \E t \in Tasks :
        /\ task[t].op = "complete"
        /\ task[t].pc = "remove"
        /\ task[t].result = "err"
        /\ Unwrap(task[t].request_id) \in DOMAIN active_requests

(***************************************************************************)
(* C16: when cancel_request(id) returns, it returns true only if a request *)
(* with that id is in progress, it returns true if such a request is past  *)
(* its registry insert, and it leaves the registry as it was.              *)
(***************************************************************************)
\* A request with the id rid is past its insert and has not exited.
InFlight(rid) ==
    \E u \in RequestsWith(rid) : task[u].pc \in IoPoints \cup {"closing"}

CancelTrueIffInFlight ==
    [][\A t \in Tasks :
         (task[t].op = "cancel" /\ task'[t].pc = "idle") =>
            LET rid == Unwrap(task[t].request_id)
            IN  /\ task'[t].result = "true" => RequestsWith(rid) # {}
                /\ InFlight(rid) => task'[t].result = "true"
                /\ active_requests' = active_requests]_vars

LockNotHeldAcrossIo ==
    \A t \in Tasks : lock = Some(t) => task[t].pc \in {"insert", "remove", "get"}

\* One task holds the mutex for its map operation while another, called with
\* an id, is suspended on the backend.
LockWitness ==
    \E t \in Tasks : \E u \in Tasks :
        /\ lock = Some(t)
        /\ task[u].pc \in IoPoints
        /\ task[u].request_id # None

(***************************************************************************)
(* The request translator: convert_claude_to_openai.                       *)
(***************************************************************************)
\* Str("ab") is written <<"a", "b">>.  The white space str::trim removes.
WhiteSpace == {" ", "\n", "\t"}

\* str.trim(): without leading and trailing white space.
RECURSIVE TrimStart(_)
TrimStart(s) == IF s # << >> /\ Head(s) \in WhiteSpace THEN TrimStart(Tail(s)) ELSE s

RECURSIVE TrimEnd(_)
TrimEnd(s) ==
    IF s # << >> /\ s[Len(s)] \in WhiteSpace THEN TrimEnd(SubSeq(s, 1, Len(s) - 1)) ELSE s

Trim(s) == TrimEnd(TrimStart(s))

RECURSIVE Join(_, _)
\* parts.join(sep)
Join(parts, sep) ==
    IF parts = << >> THEN << >>
    ELSE IF Len(parts) = 1 THEN parts[1]
    ELSE parts[1] \o sep \o Join(Tail(parts), sep)

\* ToolResultContent::String(s), and ToolResultContent::Array(arr) whose
\* items are objects: their "type" and "text" members if they are strings,
\* and their serde_json::to_string.
ToolResultString(s) == [kind |-> "string", text |-> s, items |-> << >>]

ToolResultArray(items) == [kind |-> "array", text |-> << >>, items |-> items]

ArrayItem(type, text, json) == [type |-> type, text |-> text, json |-> json]

\* A ClaudeContentBlock of each variant.
ContentBlock(type, text, source, id, name, tool_input, tool_use_id, content) ==
    [type |-> type, text |-> text, source |-> source, id |-> id, name |-> name,
     input |-> tool_input, tool_use_id |-> tool_use_id, content |-> content]

Text(text) ==
    ContentBlock("text", text, None, << >>, << >>, << >>, << >>, ToolResultString(<< >>))

\* source holds the "type", "media_type" and "data" members that are strings.
Image(source_type, media_type, data) ==
    ContentBlock("image", << >>,
                 Some([type |-> source_type, media_type |-> media_type, data |-> data]),
                 << >>, << >>, << >>, << >>, ToolResultString(<< >>))

\* tool_input is the input map by its serde_json::to_string.
ToolUse(id, name, tool_input) ==
    ContentBlock("tool_use", << >>, None, id, name, tool_input, << >>, ToolResultString(<< >>))

ToolResult(tool_use_id, content) ==
    ContentBlock("tool_result", << >>, None, << >>, << >>, << >>, tool_use_id, content)

\* MessageContent::String(s) and MessageContent::Blocks(blocks).
ContentString(s) == [kind |-> "string", text |-> s, blocks |-> << >>]

ContentBlocks(blocks) == [kind |-> "blocks", text |-> << >>, blocks |-> blocks]

ClaudeMessage(role, content) == [role |-> role, content |-> content]

\* serde_json::Value::String(s) and Value::Array(parts) of typed parts.
ValueString(s) == [kind |-> "string", text |-> s, parts |-> << >>]

ValueArray(parts) == [kind |-> "array", text |-> << >>, parts |-> parts]

TextPart(text) == [type |-> "text", text |-> text, url |-> << >>]

ImageUrlPart(url) == [type |-> "image_url", text |-> << >>, url |-> url]

OpenAIMessage(role, content, tool_calls, tool_call_id) ==
    [role |-> role, content |-> content, tool_calls |-> tool_calls,
     tool_call_id |-> tool_call_id]

OpenAIToolCall(id, name, arguments) ==
    [id |-> id, type |-> "function", function |-> [name |-> name, arguments |-> arguments]]

\* The text of one item of a tool result array.
ItemText(item) ==
    IF item.type = Some("text") /\ IsSome(item.text) THEN Unwrap(item.text)
    ELSE IF IsSome(item.text) THEN Unwrap(item.text)
    ELSE item.json

parse_tool_result_content(content) ==
    IF content.kind = "string" THEN content.text
    ELSE Trim(Join([i \in 1..Len(content.items) |-> ItemText(content.items[i])], <<"\n">>))

\* The parts of a user message's blocks: text and base64 images.
RECURSIVE UserParts(_)
UserParts(blocks) ==
    IF blocks = << >> THEN << >>
    ELSE LET block == Head(blocks)
             part ==
                IF block.type = "text" THEN <<TextPart(block.text)>>
                ELSE IF /\ block.type = "image"
                        /\ IsSome(Unwrap(block.source).type)
                        /\ IsSome(Unwrap(block.source).media_type)
                        /\ IsSome(Unwrap(block.source).data)
                        /\ Unwrap(block.source).type = Some(<<"b", "a", "s", "e", "6", "4">>)
                     THEN <<ImageUrlPart(<<"data:">> \o Unwrap(Unwrap(block.source).media_type)
                                            \o <<";base64,">> \o Unwrap(Unwrap(block.source).data))>>
                ELSE << >>
         IN  part \o UserParts(Tail(blocks))

\* Variant of convert_claude_user_message that collapses a single part of
\* any type; ContentCollapse must tell it apart.
UserMessageCollapsesAnyPart(msg) ==
    IF msg.content.kind = "string"
    THEN OpenAIMessage("user", Some(ValueString(msg.content.text)), None, None)
    ELSE LET openai_content == UserParts(msg.content.blocks)
         IN  IF Len(openai_content) = 1
             THEN OpenAIMessage("user",
                      Some(ValueString(openai_content[1].text \o openai_content[1].url)),
                      None, None)
             ELSE OpenAIMessage("user", Some(ValueArray(openai_content)), None, None)


convert_claude_user_message(msg) ==
    IF msg.content.kind = "string"
    THEN OpenAIMessage("user", Some(ValueString(msg.content.text)), None, None)
    ELSE LET openai_content == UserParts(msg.content.blocks)
         IN  IF Len(openai_content) = 1 /\ openai_content[1].type = "text"
             THEN OpenAIMessage("user", Some(ValueString(openai_content[1].text)), None, None)
             ELSE OpenAIMessage("user", Some(ValueArray(openai_content)), None, None)

convert_claude_assistant_message(msg) ==
    IF msg.content.kind = "string"
    THEN OpenAIMessage("assistant", Some(ValueString(msg.content.text)), None, None)
    ELSE LET blocks == msg.content.blocks
             texts == SelectSeq(blocks, LAMBDA b : b.type = "text")
             uses == SelectSeq(blocks, LAMBDA b : b.type = "tool_use")
             text_parts == [i \in 1..Len(texts) |-> texts[i].text]
             tool_calls == [i \in 1..Len(uses) |->
                              OpenAIToolCall(uses[i].id, uses[i].name, uses[i].input)]
         IN  OpenAIMessage("assistant",
                           IF text_parts = << >> THEN None
                           ELSE Some(ValueString(Join(text_parts, << >>))),
                           IF tool_calls = << >> THEN None ELSE Some(tool_calls),
                           None)

\* The tool_result blocks of a message, in block order.
ToolResultsOf(msg) ==
    IF msg.content.kind = "blocks"
    THEN SelectSeq(msg.content.blocks, LAMBDA b : b.type = "tool_result")
    ELSE << >>

\* Variant of convert_claude_tool_results that answers with the first
\* tool_result only; FoldedToolResults must tell it apart.
FirstToolResultOnly(msg) ==
    LET results == SubSeq(ToolResultsOf(msg), 1, 1)
    IN  [k \in 1..Len(results) |->
            OpenAIMessage("tool",
                          Some(ValueString(parse_tool_result_content(results[k].content))),
                          None, Some(results[k].tool_use_id))]

convert_claude_tool_results(msg) ==
    LET results == ToolResultsOf(msg)
    IN  [k \in 1..Len(results) |->
            OpenAIMessage("tool",
                          Some(ValueString(parse_tool_result_content(results[k].content))),
                          None, Some(results[k].tool_use_id))]

has_tool_results(msg) == ToolResultsOf(msg) # << >>

\* Variant of NextIndex that does not skip the message whose tool results
\* were folded; ToolResultFolding must tell it apart.
NextIndexWithoutSkip(i, folded) == i + 1

\* The index the walk goes on with after message i.
NextIndex(i, folded) == IF folded THEN i + 2 ELSE i + 1

RECURSIVE ProcessMessages(_, _)
\* The while loop over claude_request.messages, from index i.
ProcessMessages(messages, i) ==
    IF i > Len(messages) THEN << >>
    ELSE LET msg == messages[i]
             folded == /\ i + 1 <= Len(messages)
                       /\ messages[i + 1].role = "user"
                       /\ has_tool_results(messages[i + 1])
         IN  IF msg.role = "user"
             THEN <<convert_claude_user_message(msg)>>
                  \o ProcessMessages(messages, i + 1)
             ELSE IF msg.role = "assistant"
             THEN <<convert_claude_assistant_message(msg)>>
                  \o (IF folded THEN convert_claude_tool_results(messages[i + 1]) ELSE << >>)
                  \o ProcessMessages(messages, NextIndex(i, folded))
             ELSE ProcessMessages(messages, i + 1)

\* SystemContent::String(s) and SystemContent::Blocks(blocks).
SystemString(s) == [kind |-> "string", text |-> s, blocks |-> << >>]

SystemBlocks(blocks) == [kind |-> "blocks", text |-> << >>, blocks |-> blocks]

ClaudeSystemContent(content_type, text) == [content_type |-> content_type, text |-> text]

\* system_text of convert_claude_to_openai.
SystemText(sys) ==
    LET texts == SelectSeq(sys.blocks, LAMBDA b : b.content_type = "text") IN
    IF sys.kind = "string" THEN sys.text
    ELSE Join([k \in 1..Len(texts) |-> texts[k].text], <<"\n", "\n">>)

\* Variant of SystemMessages that tests the text before trimming it;
\* AbsentFieldsStayAbsent must tell it apart.
SystemMessagesUntrimmed(system) ==
    IF ~IsSome(system) THEN << >>
    ELSE IF SystemText(Unwrap(system)) = << >> THEN << >>
    ELSE <<OpenAIMessage("system", Some(ValueString(Trim(SystemText(Unwrap(system))))),
                         None, None)>>

\* The system message, if the system text is not blank.
SystemMessages(system) ==
    IF ~IsSome(system) THEN << >>
    ELSE LET system_text == SystemText(Unwrap(system)) IN
         IF Trim(system_text) = << >> THEN << >>
         ELSE <<OpenAIMessage("system", Some(ValueString(Trim(system_text))), None, None)>>

\* The letters str::to_lowercase changes, and what it makes of them.
UpperCase == <<"A", "B", "C", "D", "E", "F", "G", "H", "I", "J", "K", "L", "M", "N", "O", "P", "Q", "R", "S", "T", "U", "V", "W", "X", "Y", "Z">>

LowerCase == <<"a", "b", "c", "d", "e", "f", "g", "h", "i", "j", "k", "l", "m", "n", "o", "p", "q", "r", "s", "t", "u", "v", "w", "x", "y", "z">>

\* str::to_lowercase()
to_lowercase(s) ==
    [k \in 1..Len(s) |->
        IF \E j \in 1..Len(UpperCase) : UpperCase[j] = s[k]
        THEN LowerCase[CHOOSE j \in 1..Len(UpperCase) : UpperCase[j] = s[k]]
        ELSE s[k]]

\* str::starts_with(prefix)
starts_with(s, prefix) == Len(s) >= Len(prefix) /\ SubSeq(s, 1, Len(prefix)) = prefix

\* str::contains(pattern)
contains(s, pattern) ==
    \E i \in 1..(Len(s) - Len(pattern) + 1) : SubSeq(s, i, i + Len(pattern) - 1) = pattern

\* ModelManager::new(config)
ModelManager(cfg) == [config |-> cfg]

\* Variant of map_claude_model_to_openai that tests the names as they are
\* written; ModelMapping must tell it apart.
MapModelCaseSensitive(self, model) ==
    IF \/ starts_with(model, <<"g", "p", "t", "-">>) \/ starts_with(model, <<"o", "1", "-">>)
       \/ starts_with(model, <<"e", "p", "-">>) \/ starts_with(model, <<"d", "o", "u", "b", "a", "o", "-">>)
       \/ starts_with(model, <<"d", "e", "e", "p", "s", "e", "e", "k", "-">>)
    THEN model
    ELSE IF contains(model, <<"h", "a", "i", "k", "u">>) THEN self.config.small_model
    ELSE IF contains(model, <<"s", "o", "n", "n", "e", "t">>) THEN self.config.middle_model
    ELSE self.config.big_model

\* ModelManager::map_claude_model_to_openai(&self, claude_model)
map_claude_model_to_openai(self, model) ==
    IF starts_with(model, <<"g", "p", "t", "-">>) \/ starts_with(model, <<"o", "1", "-">>)
    THEN model
    ELSE IF \/ starts_with(model, <<"e", "p", "-">>)
            \/ starts_with(model, <<"d", "o", "u", "b", "a", "o", "-">>)
            \/ starts_with(model, <<"d", "e", "e", "p", "s", "e", "e", "k", "-">>)
    THEN model
    ELSE LET model_lower == to_lowercase(model) IN
         IF contains(model_lower, <<"h", "a", "i", "k", "u">>) THEN self.config.small_model
         ELSE IF contains(model_lower, <<"s", "o", "n", "n", "e", "t">>) THEN self.config.middle_model
         ELSE IF contains(model_lower, <<"o", "p", "u", "s">>) THEN self.config.big_model
         ELSE self.config.big_model

\* A ClaudeTool, and the OpenAITool made of it.
ClaudeTool(name, description, input_schema) ==
    [name |-> name, description |-> description, input_schema |-> input_schema]

OpenAITool(name, description, parameters) ==
    [type |-> "function",
     function |-> [name |-> name, description |-> description, parameters |-> parameters]]

\* The tool_choice map by its "type" and "name" members: None when the
\* member is missing, else the member's value.
ToolChoice(type, name) == [type |-> type, name |-> name]

\* A serde_json::Value that is no string.
ValueNumber == [kind |-> "number", text |-> << >>, parts |-> << >>]

\* Value::as_str()
as_str(v) == IF v.kind = "string" THEN Some(v.text) ELSE None

\* map.get(key).and_then(|v| v.as_str())
get_str(member) == IF IsSome(member) THEN as_str(Unwrap(member)) ELSE None

\* {"type": "function", "function": {"name": name}}
FunctionChoice(name) == [kind |-> "object", text |-> name, parts |-> << >>]

\* The tools of the backend request.
ConvertTools(tools) ==
    IF ~IsSome(tools) THEN None
    ELSE LET kept == SelectSeq(Unwrap(tools), LAMBDA tool : Trim(tool.name) # << >>)
             openai_tools == [k \in 1..Len(kept) |->
                                 OpenAITool(kept[k].name, kept[k].description,
                                            kept[k].input_schema)]
         IN  IF openai_tools # << >> THEN Some(openai_tools) ELSE None

\* The tool_choice of the backend request.
ConvertToolChoice(tool_choice) ==
    IF ~IsSome(tool_choice) THEN None
    ELSE LET choice_type == get_str(Unwrap(tool_choice).type)
             name == get_str(Unwrap(tool_choice).name)
         IN  IF ~IsSome(choice_type) THEN None
             ELSE IF Unwrap(choice_type) \in {<<"a", "u", "t", "o">>, <<"a", "n", "y">>} THEN Some(ValueString(<<"a", "u", "t", "o">>))
             ELSE IF Unwrap(choice_type) = <<"t", "o", "o", "l">>
             THEN IF IsSome(name) THEN Some(FunctionChoice(Unwrap(name)))
                  ELSE Some(ValueString(<<"a", "u", "t", "o">>))
             ELSE Some(ValueString(<<"a", "u", "t", "o">>))

\* Variant of ClampMaxTokens without the lower limit; TokenClampOrdered must
\* tell it apart.
ClampUpperOnly(requested, min_tokens, max_tokens) ==
    IF requested < max_tokens THEN requested ELSE max_tokens

\* claude_request.max_tokens.max(min_tokens).min(max_tokens)
ClampMaxTokens(requested, min_tokens, max_tokens) ==
    LET raised == IF requested > min_tokens THEN requested ELSE min_tokens
    IN  IF raised < max_tokens THEN raised ELSE max_tokens

\* The OpenAIChatCompletionRequest.
convert_claude_to_openai(request, model_manager, min_tokens, max_tokens) ==
    [model |-> map_claude_model_to_openai(model_manager, request.model),
     messages |-> SystemMessages(request.system) \o ProcessMessages(request.messages, 1),
     max_tokens |-> Some(ClampMaxTokens(request.max_tokens, min_tokens, max_tokens)),
     stream |-> request.stream,
     tools |-> ConvertTools(request.tools),
     tool_choice |-> ConvertToolChoice(request.tool_choice)]

\* The longest message list that is enumerated.
MaxMessages == 3

\* The largest token limit that is enumerated.
MaxTokenLimit == 2

\* The messages the requests are made of.
Messages ==
    { ClaudeMessage("user", ContentString(<<"h", "i">>)),
      ClaudeMessage("user", ContentBlocks(<<ToolResult(<<"t", "1">>, ToolResultString(<<"r">>))>>)),
      ClaudeMessage("user", ContentBlocks(<<
          Text(<<"a">>),
          ToolResult(<<"t", "2">>, ToolResultArray(<<
              ArrayItem(Some("text"), Some(<<" ", "x">>), <<"{", "}">>),
              ArrayItem(None, None, <<"{", "}">>)>>)),
          ToolResult(<<"t", "1">>, ToolResultString(<<"r">>))>>)),
      ClaudeMessage("assistant", ContentString(<<"o", "k">>)),
      ClaudeMessage("assistant", ContentBlocks(<<
          Text(<<"a">>),
          ToolUse(<<"t", "1">>, <<"f">>, <<"{", "}">>),
          ToolUse(<<"t", "2">>, <<"g">>, <<"{", "}">>)>>)),
      ClaudeMessage("system", ContentString(<<"s">>)) }

\* The system fields the requests carry.
Systems ==
    { None, Some(SystemString(<<" ">>)),
      Some(SystemBlocks(<<ClaudeSystemContent("text", <<"s">>),
                          ClaudeSystemContent("text", <<"t">>)>>)) }

\* A request arrives under some configuration.
RequestInit ==
    /\ claude_request \in
          { ClaudeMessagesRequest(system, messages, max_tokens) :
                system \in Systems,
                messages \in SeqsUpTo(Messages, MaxMessages),
                max_tokens \in 0..(MaxTokenLimit + 1) }
    /\ config \in { Config(lo, hi) : lo \in 1..MaxTokenLimit, hi \in 1..MaxTokenLimit }
    /\ openai_request = None
    /\ ProviderNew
    /\ NoHandler
    /\ NoHeartbeat
    /\ read = << >>
    /\ unread = << >>
    /\ pc = "start"
    /\ frames = << >>
    /\ current_tool_calls = [k \in {} |-> NewToolCallState]
    /\ tool_block_counter = 0
    /\ final_stop_reason = "end_turn"
    /\ usage_data = ZeroUsage

\* The handler calls convert_claude_to_openai.
ConvertRequest ==
    /\ openai_request = None
    /\ openai_request' = Some(convert_claude_to_openai(claude_request, ModelManager(config),
                                  config.min_tokens_limit, config.max_tokens_limit))
    /\ UNCHANGED <<claude_request, config>>
    /\ UNCHANGED <<translator_vars, provider_vars, handler_vars, cancellation_vars>>

RequestNext == ConvertRequest

RequestSpec == RequestInit /\ [][RequestNext]_vars

(***************************************************************************)
(* C19: in the translated request, for every assistant message that is     *)
(* immediately followed by a user message with n >= 1 tool_result blocks,  *)
(* the backend assistant message is immediately followed by n tool-role    *)
(* messages, the k-th carrying the tool_use_id of the k-th tool_result,    *)
(* and the user message yields no message of its own.                      *)
(***************************************************************************)
\* The number of tool_result blocks of message j.
NumToolResults(messages, j) ==
    IF messages[j].content.kind = "blocks"
    THEN Cardinality({ b \in 1..Len(messages[j].content.blocks) :
                         messages[j].content.blocks[b].type = "tool_result" })
    ELSE 0

\* Message j is a tool-result message that follows an assistant message.
FoldedInto(messages, j) ==
    /\ j > 1
    /\ messages[j].role = "user"
    /\ messages[j - 1].role = "assistant"
    /\ NumToolResults(messages, j) >= 1

\* The number of backend messages expected for message j.
ExpectedFor(messages, j) ==
    IF FoldedInto(messages, j) THEN NumToolResults(messages, j)
    ELSE IF messages[j].role \in {"user", "assistant"} THEN 1
    ELSE 0

RECURSIVE ExpectedBefore(_, _)
\* The number of backend messages expected for the messages before j.
ExpectedBefore(messages, j) ==
    IF j <= 1 THEN 0
    ELSE ExpectedBefore(messages, j - 1) + ExpectedFor(messages, j - 1)

\* The tool_use_id of the k-th tool_result block of a message.
KthToolUseId(msg, k) ==
    LET at == { b \in 1..Len(msg.content.blocks) : msg.content.blocks[b].type = "tool_result" }
        b == CHOOSE c \in at : Cardinality({ d \in at : d <= c }) = k
    IN  msg.content.blocks[b].tool_use_id

ToolResultFolding ==
    IsSome(openai_request) =>
        LET messages == claude_request.messages
            out == Unwrap(openai_request).messages
            sys == IF out # << >> /\ out[1].role = "system" THEN 1 ELSE 0
        IN  /\ Len(out) = sys + ExpectedBefore(messages, Len(messages) + 1)
            /\ \A i \in 1..(Len(messages) - 1) :
                  (messages[i].role = "assistant" /\ FoldedInto(messages, i + 1)) =>
                      LET p == sys + ExpectedBefore(messages, i)
                          n == NumToolResults(messages, i + 1)
                      IN  /\ out[p + 1].role = "assistant"
                          /\ \A k \in 1..n :
                                /\ out[p + 1 + k].role = "tool"
                                /\ out[p + 1 + k].tool_call_id
                                      = Some(KthToolUseId(messages[i + 1], k))
                          /\ p + n + 2 <= Len(out) => out[p + n + 2].role # "tool"

\* Translated: an assistant message with tool calls, then a user message
\* with a text block and two tool results, then another user message, under
\* a system message.
ToolResultFoldingWitness ==
    /\ IsSome(openai_request)
    /\ Len(claude_request.messages) = 3
    /\ claude_request.messages[1].role = "assistant"
    /\ NumToolResults(claude_request.messages, 2) = 2
    /\ claude_request.messages[2].role = "user"
    /\ claude_request.messages[3].role = "user"
    /\ Unwrap(openai_request).messages[1].role = "system"
    /\ Len(Unwrap(openai_request).messages) = 5

(***************************************************************************)
(* C20 as stated: the translated request carries max_tokens equal to       *)
(* min_tokens for a request below min_tokens, to max_tokens for a request  *)
(* above max_tokens and to the requested value otherwise, and the value    *)
(* lies in [min_tokens, max_tokens], for every pair of limits.             *)
(***************************************************************************)
\* v is requested clamped to [lo, hi].
IsClampOf(v, requested, lo, hi) ==
    /\ requested < lo => v = lo
    /\ requested > hi => v = hi
    /\ (lo <= requested /\ requested <= hi) => v = requested
    /\ lo <= v
    /\ v <= hi

TokenClampInLimits ==
    IsSome(openai_request) =>
        IsClampOf(Unwrap(Unwrap(openai_request).max_tokens), claude_request.max_tokens,
                  config.min_tokens_limit, config.max_tokens_limit)

(***************************************************************************)
(* C20 amended: the same for limits with min_tokens <= max_tokens; with    *)
(* min_tokens > max_tokens the translated request carries max_tokens.      *)
(***************************************************************************)
TokenClampOrdered ==
    IsSome(openai_request) =>
        LET v == Unwrap(Unwrap(openai_request).max_tokens)
        IN  IF config.min_tokens_limit <= config.max_tokens_limit
            THEN IsClampOf(v, claude_request.max_tokens,
                           config.min_tokens_limit, config.max_tokens_limit)
            ELSE v = config.max_tokens_limit

\* Translated: a request below the lower of two distinct ordered limits.
TokenClampWitness ==
    /\ IsSome(openai_request)
    /\ config.min_tokens_limit < config.max_tokens_limit
    /\ claude_request.max_tokens < config.min_tokens_limit
    /\ Unwrap(openai_request).max_tokens = Some(config.min_tokens_limit)

(***************************************************************************)
(* The request translator applied to requests that differ in their model   *)
(* name, under configurations that differ in their backend models.         *)
(***************************************************************************)
\* The largest number of parts a model name is made of.
MaxNameParts == 2

\* The parts the model names are made of.
NameParts ==
    { <<"g", "p", "t", "-">>,
      <<"G", "p", "t", "-">>,
      <<"o", "1", "-">>,
      <<"e", "p", "-">>,
      <<"d", "o", "u", "b", "a", "o", "-">>,
      <<"d", "e", "e", "p", "s", "e", "e", "k", "-">>,
      <<"h", "a", "i", "k", "u">>,
      <<"H", "a", "i", "k", "u">>,
      <<"s", "o", "n", "n", "e", "t">>,
      <<"S", "o", "n", "n", "e", "t">>,
      <<"o", "p", "u", "s">>,
      <<"O", "P", "U", "S">>,
      <<"c", "l", "a", "u", "d", "e", "-">>,
      <<"x">> }

\* The model names of the requests.
ModelNames == { Concat(parts) : parts \in SeqsUpTo(NameParts, MaxNameParts) }

\* The models a configuration names.
BackendModels == { small_model, middle_model, big_model }

\* No provider stream is being translated.
NoStreamYet ==
    /\ read = << >>
    /\ unread = << >>
    /\ pc = "start"
    /\ frames = << >>
    /\ current_tool_calls = [k \in {} |-> NewToolCallState]
    /\ tool_block_counter = 0
    /\ final_stop_reason = "end_turn"
    /\ usage_data = ZeroUsage

\* A request naming some model arrives under some configuration.
ModelInit ==
    /\ claude_request \in
          { MessagesRequest(model, None, << >>, 1, FALSE, None, None) : model \in ModelNames }
    /\ config \in { FullConfig(None, DEFAULT_MAX_MESSAGES, 1, 1, small, middle, big) :
                         small \in BackendModels, middle \in BackendModels,
                         big \in BackendModels }
    /\ openai_request = None
    /\ ProviderNew
    /\ NoHandler
    /\ NoHeartbeat
    /\ NoStreamYet

ModelSpec == ModelInit /\ [][RequestNext]_vars

(***************************************************************************)
(* C21: a model name that starts, as written, with gpt-, o1-, ep-,         *)
(* doubao- or deepseek- is the backend model unchanged; any other name     *)
(* maps to the small model if it contains haiku in any letter case, else   *)
(* to the middle model if it contains sonnet, else to the big model.       *)
(***************************************************************************)
\* The prefixes of the names that are passed through.
PassthroughPrefixes ==
    { <<"g", "p", "t", "-">>,
      <<"o", "1", "-">>,
      <<"e", "p", "-">>,
      <<"d", "o", "u", "b", "a", "o", "-">>,
      <<"d", "e", "e", "p", "s", "e", "e", "k", "-">> }

\* c is the letter d, in lower or upper case.
SameLetter(c, d) ==
    c = d \/ \E j \in 1..Len(UpperCase) : UpperCase[j] = c /\ LowerCase[j] = d

\* The name contains the keyword, whatever the case of its letters.
NamesFamily(name, keyword) ==
    \E i \in 0..(Len(name) - Len(keyword)) :
        \A k \in 1..Len(keyword) : SameLetter(name[i + k], keyword[k])

IsPassthrough(name) ==
    \E prefix \in PassthroughPrefixes :
        Len(name) >= Len(prefix) /\ \A k \in 1..Len(prefix) : name[k] = prefix[k]

ModelMapping ==
    IsSome(openai_request) =>
        LET name == claude_request.model
            mapped == Unwrap(openai_request).model
        IN  IF IsPassthrough(name) THEN mapped = name
            ELSE IF NamesFamily(name, <<"h", "a", "i", "k", "u">>) THEN mapped = config.small_model
            ELSE IF NamesFamily(name, <<"s", "o", "n", "n", "e", "t">>) THEN mapped = config.middle_model
            ELSE mapped = config.big_model

\* A name with two family keywords, one of them capitalised, has been
\* mapped by the first keyword of the precedence, not the first of the name.
ModelMappingWitness ==
    /\ IsSome(openai_request)
    /\ claude_request.model = <<"S", "o", "n", "n", "e", "t", "H", "a", "i", "k", "u">>
    /\ config.small_model # config.middle_model
    /\ Unwrap(openai_request).model = config.small_model

(***************************************************************************)
(* The handlers of POST /v1/messages and POST /v1/messages/count_tokens.   *)
(***************************************************************************)
\* A header value by what HeaderValue::to_str makes of it: Some(text), or
\* None when its bytes are not visible ASCII.
HeaderValue(to_str) == [to_str |-> to_str]

\* headers.get(name).and_then(|v| v.to_str().ok())
HeaderStr(header) == IF IsSome(header) THEN Unwrap(header).to_str ELSE None

\* str::strip_prefix(prefix)
strip_prefix(s, prefix) ==
    IF starts_with(s, prefix) THEN Some(SubSeq(s, Len(prefix) + 1, Len(s))) ELSE None

\* The client_api_key of validate_api_key.
ClientApiKey(request) ==
    LET x_api_key == HeaderStr(request.x_api_key)
        authorization == HeaderStr(request.authorization)
    IN  IF IsSome(x_api_key) THEN x_api_key
        ELSE IF IsSome(authorization) THEN strip_prefix(Unwrap(authorization), <<"B", "e", "a", "r", "e", "r", " ">>)
        ELSE None

\* Config::validate_client_api_key(&self, client_api_key)
validate_client_api_key(self, client_api_key) ==
    IF IsSome(self.anthropic_api_key) THEN client_api_key = Unwrap(self.anthropic_api_key)
    ELSE TRUE

\* validate_api_key(headers, config).is_ok()
validate_api_key(request, cfg) ==
    LET client_api_key == ClientApiKey(request) IN
    IF ~IsSome(cfg.anthropic_api_key) THEN TRUE
    ELSE IsSome(client_api_key) /\ validate_client_api_key(cfg, Unwrap(client_api_key))

\* Variant of Truncate that keeps the oldest messages; HistoryTruncation must
\* tell it apart.
TruncateKeepsOldest(messages, max_messages_limit) ==
    IF Len(messages) > max_messages_limit THEN SubSeq(messages, 1, max_messages_limit)
    ELSE messages

\* The messages of the processed request.
Truncate(messages, max_messages_limit) ==
    IF Len(messages) > max_messages_limit
    THEN SubSeq(messages, Len(messages) - max_messages_limit + 1, Len(messages))
    ELSE messages

\* StatusCode::OK, StatusCode::UNAUTHORIZED, StatusCode::INTERNAL_SERVER_ERROR
OK == 200

UNAUTHORIZED == 401

INTERNAL_SERVER_ERROR == 500

\* A response of a status alone, a response with a JSON body, and the
\* server-sent event response whose body is the translator's frames.
StatusOnly(status) == [status |-> status, content_type |-> "none", body |-> None]

JsonResponse(status, body) == [status |-> status, content_type |-> "json", body |-> Some(body)]

SseResponse == [status |-> OK, content_type |-> "sse", body |-> None]

\* A ProviderError of each kind.
ProviderError(kind, status, message) == [kind |-> kind, status |-> status, message |-> message]

ProviderErrors ==
    { ProviderError("Authentication", 0, <<"x">>), ProviderError("RateLimit", 0, <<"x">>),
      ProviderError("BadRequest", 0, <<"x">>), ProviderError("ApiError", 503, <<"x">>),
      ProviderError("Cancelled", 0, << >>), ProviderError("Unexpected", 0, <<"x">>) }

Digits == <<"0", "1", "2", "3", "4", "5", "6", "7", "8", "9">>

RECURSIVE FormatNumber(_)
\* The decimal digits of n.
FormatNumber(n) ==
    IF n < 10 THEN <<Digits[n + 1]>> ELSE FormatNumber(n \div 10) \o <<Digits[(n % 10) + 1]>>

\* ProviderError's Display.
to_string(e) ==
    CASE e.kind = "Authentication" -> <<"A", "u", "t", "h", "e", "n", "t", "i", "c", "a", "t", "i", "o", "n", " ", "f", "a", "i", "l", "e", "d", ":", " ">> \o e.message
      [] e.kind = "RateLimit" -> <<"R", "a", "t", "e", " ", "l", "i", "m", "i", "t", " ", "e", "x", "c", "e", "e", "d", "e", "d", ":", " ">> \o e.message
      [] e.kind = "BadRequest" -> <<"B", "a", "d", " ", "r", "e", "q", "u", "e", "s", "t", ":", " ">> \o e.message
      [] e.kind = "ApiError" ->
             <<"A", "P", "I", " ", "e", "r", "r", "o", "r", " ", "(", "s", "t", "a", "t", "u", "s", " ">> \o FormatNumber(e.status) \o <<")", ":", " ">> \o e.message
      [] e.kind = "Cancelled" -> <<"R", "e", "q", "u", "e", "s", "t", " ", "c", "a", "n", "c", "e", "l", "l", "e", "d", " ", "b", "y", " ", "c", "l", "i", "e", "n", "t">>
      [] e.kind = "Unexpected" -> <<"U", "n", "e", "x", "p", "e", "c", "t", "e", "d", " ", "e", "r", "r", "o", "r", ":", " ">> \o e.message

\* The JSON body of an error response.
ErrorEnvelope(message) ==
    [type |-> "error", error |-> [type |-> "api_error", message |-> message]]

\* Variant of ErrorStatus that passes the upstream status on;
\* ProviderErrorPath must tell it apart.
ErrorStatusOfUpstream(e) == IF e.kind = "ApiError" THEN e.status ELSE INTERNAL_SERVER_ERROR

\* The status of the response to a provider error.
ErrorStatus(e) == INTERNAL_SERVER_ERROR

\* An OpenAIChatCompletionResponse, its choices and its usage.
OpenAIChatCompletionResponse(id, model, choices, usage) ==
    [id |-> id, model |-> model, choices |-> choices, usage |-> usage]

OpenAIChoice(message, finish_reason) == [message |-> message, finish_reason |-> finish_reason]

OpenAIUsage(prompt_tokens, completion_tokens) ==
    [prompt_tokens |-> prompt_tokens, completion_tokens |-> completion_tokens,
     total_tokens |-> prompt_tokens + completion_tokens]

\* The content blocks of a Claude response.
ResponseBlock(type, text, id, name, block_input) ==
    [type |-> type, text |-> text, id |-> id, name |-> name, input |-> block_input]

TextBlock(text) == ResponseBlock("text", text, << >>, << >>, << >>)

ToolUseBlock(id, name, block_input) == ResponseBlock("tool_use", << >>, id, name, block_input)

\* serde_json::from_str(&arguments).unwrap_or_else(|_| json!({}))
ParsedInput(arguments) == IF IsJson(arguments) THEN JsonValue(arguments) ELSE <<"{", "}">>

\* The blocks pushed for message.content and message.tool_calls.
PushedBlocks(message) ==
    LET text == IF IsSome(message.content) THEN as_str(Unwrap(message.content)) ELSE None
        text_blocks == IF IsSome(text) /\ Unwrap(text) # << >>
                       THEN <<TextBlock(Unwrap(text))>> ELSE << >>
        tool_calls == IF IsSome(message.tool_calls) THEN Unwrap(message.tool_calls) ELSE << >>
    IN  text_blocks \o
        [k \in 1..Len(tool_calls) |->
            ToolUseBlock(tool_calls[k].id, tool_calls[k].function.name,
                         ParsedInput(tool_calls[k].function.arguments))]

\* Variant of ContentBlocksOf that leaves an empty list empty;
\* UnaryContent must tell it apart.
ContentBlocksAsPushed(message) == PushedBlocks(message)

\* The content_blocks of convert_openai_to_claude.
ContentBlocksOf(message) ==
    IF PushedBlocks(message) = << >> THEN <<TextBlock(<< >>)>> ELSE PushedBlocks(message)

\* The stop_reason of convert_openai_to_claude.
StopReasonOf(finish_reason) ==
    CASE finish_reason = Some("stop") -> "end_turn"
      [] finish_reason = Some("length") -> "max_tokens"
      [] finish_reason = Some("tool_calls") -> "tool_use"
      [] OTHER -> "end_turn"

\* The Claude response as a JSON value.
ClaudeResponse(id, content, model, stop_reason, usage) ==
    [id |-> id, type |-> "message", role |-> "assistant", content |-> content,
     model |-> model, stop_reason |-> stop_reason, stop_sequence |-> None, usage |-> usage]

\* convert_openai_to_claude(openai_response, original_model), for a response
\* with a first choice.
convert_openai_to_claude(openai_response, original_model) ==
    LET choice == openai_response.choices[1]
        message == choice.message
    IN  ClaudeResponse(openai_response.id, ContentBlocksOf(message), original_model,
                       StopReasonOf(choice.finish_reason),
                       [input_tokens |-> openai_response.usage.prompt_tokens,
                        output_tokens |-> openai_response.usage.completion_tokens])

\* A call on the provider: the entry point, its arguments and, once the
\* call has returned, its result.
ProviderCall(op, request, request_id, result) ==
    [op |-> op, request |-> request, request_id |-> request_id, result |-> result]

\* Err(e), Ok(response) and Ok(stream).
ProviderErr(e) == [kind |-> "err", value |-> Some(e)]

ProviderOk(response) == [kind |-> "ok", value |-> Some(response)]

ProviderStream == [kind |-> "stream", value |-> None]

\* The call in progress with its result.
Returned(calls, result) == [calls EXCEPT ![Len(calls)].result = Some(result)]

\* Variant of model_name that names the backend model; UnaryMapping must
\* tell it apart.
MappedModelName == Unwrap(openai_request).model

\* The model_name of create_message.
model_name == http_request.body.model

\* create_message up to its call on the provider.
CreateMessage ==
    /\ handler_pc = "received"
    /\ http_request.endpoint = "messages"
    /\ IF ~validate_api_key(http_request, config)
       THEN /\ http_response' = Some(StatusOnly(UNAUTHORIZED))
            /\ handler_pc' = "returned"
            /\ UNCHANGED <<claude_request, openai_request, provider_calls>>
       ELSE \E request_id \in FreshRequestIds :
            LET stream == http_request.body.stream
                processed_request ==
                    [http_request.body EXCEPT
                        !.messages = Truncate(@, config.max_messages_limit)]
                openai == convert_claude_to_openai(processed_request, ModelManager(config),
                              config.min_tokens_limit, config.max_tokens_limit)
            IN  /\ claude_request' = processed_request
                /\ openai_request' = Some(openai)
                /\ provider_calls' = Append(provider_calls,
                       IF stream
                       THEN ProviderCall("create_chat_completion_stream", openai,
                                         Some(request_id), None)
                       ELSE ProviderCall("create_chat_completion", openai, None, None))
                /\ handler_pc' = IF stream THEN "stream_setup" ELSE "complete"
                /\ UNCHANGED http_response
    /\ UNCHANGED <<http_request, config>>
    /\ UNCHANGED <<translator_vars, provider_vars, cancellation_vars>>

\* The backend responses create_chat_completion may return.
ResponseContents ==
    { None, Some(ValueString(<< >>)), Some(ValueString(<<"h", "i">>)), Some(ValueArray(<< >>)) }

ResponseToolCalls ==
    { None, Some(<< >>),
      Some(<<OpenAIToolCall(<<"t", "1">>, <<"f">>, <<"{", "k", "1", "}">>)>>),
      Some(<<OpenAIToolCall(<<"t", "1">>, <<"f">>, <<"{">>), OpenAIToolCall(<<"t", "2">>, <<"g">>, <<" ", "1">>)>>) }

ResponseFinishReasons == { None } \cup { Some(reason) : reason \in FinishReasons }

ResponseUsages == { OpenAIUsage(1, 2), OpenAIUsage(2, 0) }

ProviderResponses ==
    { OpenAIChatCompletionResponse(<<"i", "d">>, Unwrap(openai_request).model,
          <<OpenAIChoice(OpenAIMessage("assistant", content, tool_calls, None),
                         finish_reason)>>, usage) :
          content \in ResponseContents, tool_calls \in ResponseToolCalls,
          finish_reason \in ResponseFinishReasons, usage \in ResponseUsages }
    \cup { OpenAIChatCompletionResponse(<<"i", "d">>, Unwrap(openai_request).model, << >>,
                                        OpenAIUsage(1, 2)) }

\* create_chat_completion returns an error.
CompleteFails ==
    /\ handler_pc = "complete"
    /\ \E e \in ProviderErrors :
          /\ provider_calls' = Returned(provider_calls, ProviderErr(e))
          /\ http_response' = Some(JsonResponse(ErrorStatus(e), ErrorEnvelope(to_string(e))))
    /\ handler_pc' = "returned"
    /\ UNCHANGED <<http_request, request_vars>>
    /\ UNCHANGED <<translator_vars, provider_vars, cancellation_vars>>

\* create_chat_completion returns a response; choices[0] panics when there
\* is no choice.
CompleteResponds ==
    /\ handler_pc = "complete"
    /\ \E provider_response \in ProviderResponses :
          /\ provider_calls' = Returned(provider_calls, ProviderOk(provider_response))
          /\ IF provider_response.choices = << >>
             THEN /\ handler_pc' = "panicked"
                  /\ UNCHANGED http_response
             ELSE /\ handler_pc' = "returned"
                  /\ http_response' = Some(JsonResponse(OK,
                         convert_openai_to_claude(provider_response, model_name)))
    /\ UNCHANGED <<http_request, request_vars>>
    /\ UNCHANGED <<translator_vars, provider_vars, cancellation_vars>>

\* create_chat_completion_stream returns an error.
StreamSetupFails ==
    /\ handler_pc = "stream_setup"
    /\ \E e \in ProviderErrors :
          /\ provider_calls' = Returned(provider_calls, ProviderErr(e))
          /\ http_response' = Some(JsonResponse(ErrorStatus(e), ErrorEnvelope(to_string(e))))
    /\ handler_pc' = "returned"
    /\ UNCHANGED <<http_request, request_vars>>
    /\ UNCHANGED <<translator_vars, provider_vars, cancellation_vars>>

\* create_chat_completion_stream returns a stream: the handler returns the
\* server-sent event response over the translator's generator.
StreamSetupResponds ==
    /\ handler_pc = "stream_setup"
    /\ provider_calls' = Returned(provider_calls, ProviderStream)
    /\ http_response' = Some(SseResponse)
    /\ handler_pc' = "returned"
    /\ pc' = "start"
    /\ heartbeat' = Some(FALSE)
    /\ UNCHANGED cancelled
    /\ UNCHANGED <<read, unread, frames, current_tool_calls, tool_block_counter,
                   final_stop_reason, usage_data>>
    /\ UNCHANGED <<http_request, request_vars>>
    /\ UNCHANGED provider_vars

RECURSIVE Sum(_)
\* The sum of the numbers.
Sum(ns) == IF ns = << >> THEN 0 ELSE Head(ns) + Sum(Tail(ns))

\* The total_chars of count_tokens.
TotalChars(body) ==
    LET system_chars ==
            IF ~IsSome(body.system) THEN 0
            ELSE IF Unwrap(body.system).kind = "string" THEN Len(Unwrap(body.system).text)
            ELSE Sum([k \in 1..Len(Unwrap(body.system).blocks) |->
                         Len(Unwrap(body.system).blocks[k].text)])
        MessageChars(msg) ==
            IF msg.content.kind = "string" THEN Len(msg.content.text)
            ELSE Sum([k \in 1..Len(msg.content.blocks) |->
                         IF msg.content.blocks[k].type = "text"
                         THEN Len(msg.content.blocks[k].text) ELSE 0])
    IN  system_chars + Sum([k \in 1..Len(body.messages) |-> MessageChars(body.messages[k])])

\* count_tokens
CountTokens ==
    /\ handler_pc = "received"
    /\ http_request.endpoint = "count_tokens"
    /\ http_response' =
          IF ~validate_api_key(http_request, config) THEN Some(StatusOnly(UNAUTHORIZED))
          ELSE LET total_chars == TotalChars(http_request.body)
                   estimated_tokens == IF total_chars \div 4 > 1 THEN total_chars \div 4 ELSE 1
               IN  Some(JsonResponse(OK, [input_tokens |-> estimated_tokens]))
    /\ handler_pc' = "returned"
    /\ UNCHANGED <<http_request, provider_calls, request_vars>>
    /\ UNCHANGED <<translator_vars, provider_vars, cancellation_vars>>

\* The client key, and a key that is not it.
client_key == <<"k">>

wrong_key == <<"w">>

\* The x-api-key and authorization headers of the requests.
XApiKeys ==
    { None, Some(HeaderValue(Some(client_key))), Some(HeaderValue(Some(wrong_key))),
      Some(HeaderValue(None)) }

Authorizations ==
    { None, Some(HeaderValue(Some(<<"B", "e", "a", "r", "e", "r", " ", "k">>))), Some(HeaderValue(Some(<<"B", "e", "a", "r", "e", "r", " ", "w">>))),
      Some(HeaderValue(Some(<<"k">>))), Some(HeaderValue(Some(<<"b", "e", "a", "r", "e", "r", " ", "k">>))) }

\* The longest message history that is enumerated, and the largest
\* max_messages_limit.
MaxHistory == 3

MaxHistoryLimit == 2

\* The messages the histories are made of.
HistoryMessages ==
    { ClaudeMessage("user", ContentString(<<"h", "i">>)),
      ClaudeMessage("assistant", ContentString(<<"o", "k">>)),
      ClaudeMessage("user", ContentBlocks(<<
          Text(<<"a">>),
          ToolResult(<<"t", "2">>, ToolResultString(<<"s">>)),
          ToolResult(<<"t", "1">>, ToolResultString(<<"r">>))>>)) }

\* A request arrives at a handler: requests that differ in their headers,
\* under configurations with and without a client key, and requests that
\* differ in their history, under configurations that differ in their limit.
HandlerInit ==
    /\ \/ /\ \E endpoint \in {"messages", "count_tokens"}, x_api_key \in XApiKeys,
                authorization \in Authorizations, stream \in BOOLEAN :
                /\ endpoint = "count_tokens" => ~stream
                /\ http_request = HttpRequest(endpoint, x_api_key, authorization,
                       MessagesRequest(claude_model, None,
                           <<ClaudeMessage("user", ContentString(<<"h", "i">>))>>, 1, stream,
                           None, None))
          /\ config \in { FullConfig(key, DEFAULT_MAX_MESSAGES, 1, 1,
                                     small_model, middle_model, big_model) :
                             key \in {None, Some(client_key)} }
       \/ /\ http_request \in
                { HttpRequest("messages", None, None,
                      MessagesRequest(claude_model, None, messages, 1, FALSE, None, None)) :
                      messages \in SeqsUpTo(HistoryMessages, MaxHistory) }
          /\ config \in { FullConfig(None, limit, 1, 1, small_model, middle_model, big_model) :
                             limit \in 0..MaxHistoryLimit }
    /\ handler_pc = "received"
    /\ provider_calls = << >>
    /\ http_response = None
    /\ NoHeartbeat
    /\ claude_request = ClaudeMessagesRequest(None, << >>, 0)
    /\ openai_request = None
    /\ ProviderNew
    /\ read = << >>
    /\ unread = << >>
    /\ pc = "none"
    /\ frames = << >>
    /\ current_tool_calls = [k \in {} |-> NewToolCallState]
    /\ tool_block_counter = 0
    /\ final_stop_reason = "end_turn"
    /\ usage_data = ZeroUsage

HandlerNext ==
    \/ CreateMessage
    \/ CountTokens
    \/ CompleteFails
    \/ CompleteResponds
    \/ StreamSetupFails
    \/ StreamSetupResponds
    \/ CancellationTranslator

HandlerSpec == HandlerInit /\ [][HandlerNext]_vars

(***************************************************************************)
(* C22: under a configuration with a client key, a request to either       *)
(* handler is accepted if and only if its x-api-key header is the key or   *)
(* its authorization header is "Bearer " followed by the key; a request    *)
(* that is not accepted is answered 401 with no translation and no         *)
(* provider call made; without a configured key every request is accepted. *)
(***************************************************************************)
\* The request carries the key in one of the two headers.
CarriesKey(request, key) ==
    \/ HeaderStr(request.x_api_key) = Some(key)
    \/ HeaderStr(request.authorization) = Some(<<"B", "e", "a", "r", "e", "r", " ">> \o key)

\* The handler has answered 401.
Unauthorized == IsSome(http_response) /\ Unwrap(http_response).status = UNAUTHORIZED

ClientAuthentication ==
    handler_pc # "received" =>
        IF IsSome(config.anthropic_api_key)
           /\ ~CarriesKey(http_request, Unwrap(config.anthropic_api_key))
        THEN /\ http_response = Some(StatusOnly(UNAUTHORIZED))
             /\ openai_request = None
             /\ provider_calls = << >>
        ELSE ~Unauthorized

(***************************************************************************)
(* C23: when create_chat_completion or create_chat_completion_stream       *)
(* returns an error of any kind, the response is 500 with the JSON body    *)
(* {type: error, error: {type: api_error, message}} and no frame is ever   *)
(* produced; once create_chat_completion_stream has returned a stream the  *)
(* response is the 200 event stream whatever the stream yields, and an     *)
(* error item of the stream shows as an error frame.                       *)
(***************************************************************************)
\* The result of the handler's call on the provider, None while there is none.
CallResult ==
    IF provider_calls = << >> THEN None ELSE provider_calls[Len(provider_calls)].result

ProviderErrorPath ==
    IsSome(CallResult) =>
        LET result == Unwrap(CallResult) IN
        /\ result.kind = "err" =>
              /\ http_response =
                    Some(JsonResponse(INTERNAL_SERVER_ERROR,
                                      ErrorEnvelope(to_string(Unwrap(result.value)))))
              /\ frames = << >>
              /\ pc = "none"
        /\ result.kind = "stream" =>
              /\ http_response = Some(SseResponse)
              /\ ErrorRead => \E i \in 1..Len(frames) : IsError(frames[i])

\* The stream setup has failed with a rate-limit error and the handler has
\* answered 500 with the error's text.
ProviderErrorPathWitness ==
    /\ provider_calls # << >>
    /\ provider_calls[1].op = "create_chat_completion_stream"
    /\ CallResult = Some(ProviderErr(ProviderError("RateLimit", 0, <<"x">>)))
    /\ IsSome(http_response)
    /\ Unwrap(http_response).status = INTERNAL_SERVER_ERROR
    /\ Unwrap(Unwrap(http_response).body).error.message = <<"R", "a", "t", "e", " ", "l", "i", "m", "i", "t", " ", "e", "x", "c", "e", "e", "d", "e", "d", ":", " ", "x">>

(***************************************************************************)
(* C24: the messages of the request handed to the request translator are   *)
(* the last max_messages_limit messages of the request body, in their      *)
(* order, when the body has more than that, and the body's messages        *)
(* otherwise; their number never exceeds max_messages_limit.               *)
(***************************************************************************)
HistoryTruncation ==
    IsSome(openai_request) =>
        LET original == http_request.body.messages
            handed == claude_request.messages
            limit == config.max_messages_limit
        IN  /\ IF Len(original) > limit
               THEN /\ Len(handed) = limit
                    /\ \A k \in 1..limit : handed[k] = original[Len(original) - limit + k]
               ELSE handed = original
            /\ Len(handed) <= limit

\* A history of three messages has been cut to its last two, which differ
\* from its first two.
HistoryTruncationWitness ==
    /\ IsSome(openai_request)
    /\ Len(http_request.body.messages) = 3
    /\ config.max_messages_limit = 2
    /\ claude_request.messages = SubSeq(http_request.body.messages, 2, 3)
    /\ claude_request.messages # SubSeq(http_request.body.messages, 1, 2)

(***************************************************************************)
(* C25: the content of the Claude response built from a backend response   *)
(* has at least one block: a text block if message.content is a non-empty  *)
(* string, then one tool_use block per entry of message.tool_calls in the  *)
(* backend's order, whose input is the parsed arguments, or {} when they   *)
(* do not parse; and one empty text block if there would be none.          *)
(***************************************************************************)
\* The backend response the handler has answered from, when it has.
AnsweredFromResponse ==
    /\ IsSome(CallResult)
    /\ Unwrap(CallResult).kind = "ok"
    /\ IsSome(http_response)

BackendResponse == Unwrap(Unwrap(CallResult).value)

ClientResponse == Unwrap(Unwrap(http_response).body)

UnaryContent ==
    AnsweredFromResponse =>
        LET message == BackendResponse.choices[1].message
            blocks == ClientResponse.content
            has_text == /\ IsSome(message.content)
                        /\ Unwrap(message.content).kind = "string"
                        /\ Unwrap(message.content).text # << >>
            calls == IF IsSome(message.tool_calls) THEN Unwrap(message.tool_calls) ELSE << >>
            offset == IF has_text THEN 1 ELSE 0
        IN  /\ Len(blocks) >= 1
            /\ IF ~has_text /\ calls = << >>
               THEN blocks = <<[type |-> "text", text |-> << >>, id |-> << >>,
                                name |-> << >>, input |-> << >>]>>
               ELSE /\ Len(blocks) = offset + Len(calls)
                    /\ has_text => /\ blocks[1].type = "text"
                                   /\ blocks[1].text = Unwrap(message.content).text
                    /\ \A k \in 1..Len(calls) :
                          /\ blocks[offset + k].type = "tool_use"
                          /\ blocks[offset + k].id = calls[k].id
                          /\ blocks[offset + k].name = calls[k].function.name
                          /\ blocks[offset + k].input =
                                IF IsJson(calls[k].function.arguments)
                                THEN JsonValue(calls[k].function.arguments)
                                ELSE <<"{", "}">>

\* A response with a text and two tool calls, the first with arguments that
\* do not parse, has been answered with three blocks.
UnaryContentWitness ==
    /\ AnsweredFromResponse
    /\ BackendResponse.choices[1].message.content = Some(ValueString(<<"h", "i">>))
    /\ IsSome(BackendResponse.choices[1].message.tool_calls)
    /\ Len(Unwrap(BackendResponse.choices[1].message.tool_calls)) = 2
    /\ Len(ClientResponse.content) = 3
    /\ ClientResponse.content[2].input = <<"{", "}">>
    /\ ClientResponse.content[3].input = <<"1">>

(***************************************************************************)
(* C26: in the Claude response built from a backend response, stop_reason  *)
(* is end_turn for the finish reason stop, max_tokens for length, tool_use *)
(* for tool_calls and end_turn for any other or no finish reason; model is *)
(* the model name of the request body, not the backend model it was mapped *)
(* to; usage.input_tokens and usage.output_tokens are the backend's        *)
(* prompt_tokens and completion_tokens.                                    *)
(***************************************************************************)
UnaryMapping ==
    AnsweredFromResponse =>
        LET finish_reason == BackendResponse.choices[1].finish_reason IN
        /\ ClientResponse.stop_reason =
              IF finish_reason = Some("stop") THEN "end_turn"
              ELSE IF finish_reason = Some("length") THEN "max_tokens"
              ELSE IF finish_reason = Some("tool_calls") THEN "tool_use"
              ELSE "end_turn"
        /\ ClientResponse.model = http_request.body.model
        /\ ClientResponse.usage.input_tokens = BackendResponse.usage.prompt_tokens
        /\ ClientResponse.usage.output_tokens = BackendResponse.usage.completion_tokens

\* A response of the backend model, finished for function_call, has been
\* answered under the request's model name with end_turn and its token counts.
UnaryMappingWitness ==
    /\ AnsweredFromResponse
    /\ BackendResponse.choices[1].finish_reason = Some("function_call")
    /\ BackendResponse.model # http_request.body.model
    /\ ClientResponse.model = claude_model
    /\ ClientResponse.stop_reason = "end_turn"
    /\ ClientResponse.usage = [input_tokens |-> 1, output_tokens |-> 2]

(***************************************************************************)
(* The request translator applied to requests that differ in their system, *)
(* tools and tool_choice members.                                          *)
(***************************************************************************)
\* The longest message list of these requests.
MaxFieldMessages == 1

\* The system members.
FieldSystems ==
    { None,
      Some(SystemString(<< >>)), Some(SystemString(<<" ">>)), Some(SystemString(<<" ", "s", " ">>)),
      Some(SystemBlocks(<< >>)),
      Some(SystemBlocks(<<ClaudeSystemContent("text", << >>),
                          ClaudeSystemContent("text", << >>)>>)),
      Some(SystemBlocks(<<ClaudeSystemContent("text", <<"s">>),
                          ClaudeSystemContent("text", <<"t">>)>>)),
      Some(SystemBlocks(<<ClaudeSystemContent("other", <<"s">>)>>)) }

\* The tools members.
FieldTools ==
    { None, Some(<< >>),
      Some(<<ClaudeTool(<<" ">>, None, <<"{", "}">>)>>),
      Some(<<ClaudeTool(<<"f">>, Some(<<"d">>), <<"{", "}">>)>>),
      Some(<<ClaudeTool(<<"f">>, None, <<"{", "}">>), ClaudeTool(<< >>, None, <<"{", "}">>),
             ClaudeTool(<<"g">>, None, <<"{", "}">>)>>) }

\* The tool_choice members.
FieldToolChoices ==
    { None,
      Some(ToolChoice(None, None)),
      Some(ToolChoice(None, Some(ValueString(<<"f">>)))),
      Some(ToolChoice(Some(ValueNumber), None)),
      Some(ToolChoice(Some(ValueString(<<"a", "u", "t", "o">>)), None)),
      Some(ToolChoice(Some(ValueString(<<"a", "n", "y">>)), None)),
      Some(ToolChoice(Some(ValueString(<<"n", "o", "n", "e">>)), None)),
      Some(ToolChoice(Some(ValueString(<<"t", "o", "o", "l">>)), None)),
      Some(ToolChoice(Some(ValueString(<<"t", "o", "o", "l">>)), Some(ValueNumber))),
      Some(ToolChoice(Some(ValueString(<<"t", "o", "o", "l">>)), Some(ValueString(<<"f">>)))) }

\* A request with some system, tools and tool_choice members arrives.
FieldsInit ==
    /\ claude_request \in
          { MessagesRequest(claude_model, system, messages, 1, FALSE, tools, tool_choice) :
                system \in FieldSystems, messages \in SeqsUpTo(Messages, MaxFieldMessages),
                tools \in FieldTools, tool_choice \in FieldToolChoices }
    /\ config = Config(1, 1)
    /\ openai_request = None
    /\ ProviderNew
    /\ NoHandler
    /\ NoHeartbeat
    /\ NoStreamYet

FieldsSpec == FieldsInit /\ [][RequestNext]_vars

(***************************************************************************)
(* C27: a request without system, tools and tool_choice members is         *)
(* translated to a backend request without a system-role message, without  *)
(* tools and without tool_choice; and the backend request has a            *)
(* system-role message exactly when the system text holds a character that *)
(* is no white space, in which case it has one, as its first message.      *)
(***************************************************************************)
\* The positions of the system-role messages of the backend request.
SystemPositions ==
    { k \in 1..Len(Unwrap(openai_request).messages) :
          Unwrap(openai_request).messages[k].role = "system" }

\* The system text holds a character that is no white space.
HasSystemText ==
    /\ IsSome(claude_request.system)
    /\ \E k \in 1..Len(SystemText(Unwrap(claude_request.system))) :
          SystemText(Unwrap(claude_request.system))[k] \notin WhiteSpace

AbsentFieldsStayAbsent ==
    IsSome(openai_request) =>
        /\ ( /\ ~IsSome(claude_request.system)
             /\ ~IsSome(claude_request.tools)
             /\ ~IsSome(claude_request.tool_choice) )
           => /\ SystemPositions = {}
              /\ Unwrap(openai_request).tools = None
              /\ Unwrap(openai_request).tool_choice = None
        /\ SystemPositions = IF HasSystemText THEN {1} ELSE {}

\* A request whose system blocks are all empty, so that their join is two
\* line feeds, and whose only message has the role system, has been
\* translated to no message at all.
AbsentFieldsWitness ==
    /\ IsSome(openai_request)
    /\ claude_request.system = Some(SystemBlocks(<<ClaudeSystemContent("text", << >>),
                                                  ClaudeSystemContent("text", << >>)>>))
    /\ Len(claude_request.messages) = 1
    /\ claude_request.messages[1].role = "system"
    /\ Unwrap(openai_request).messages = << >>

(***************************************************************************)
(* The request translator applied to requests of one user message in       *)
(* block form.                                                             *)
(***************************************************************************)
\* The longest block list that is enumerated.
MaxBlocks == 3

\* The blocks the user messages are made of: texts, a base64 image, an image
\* by URL, which maps to no part, and a tool result.
UserBlocks ==
    { Text(<<"a">>), Text(<< >>),
      Image(Some(<<"b", "a", "s", "e", "6", "4">>), Some(<<"i", "m", "a", "g", "e", "/", "p", "n", "g">>), Some(<<"A", "A">>)),
      Image(Some(<<"u", "r", "l">>), None, None),
      ToolResult(<<"t", "1">>, ToolResultString(<<"r">>)) }

\* A request of one user message arrives.
ContentInit ==
    /\ claude_request \in
          { ClaudeMessagesRequest(None, <<ClaudeMessage("user", ContentBlocks(blocks))>>, 1) :
                blocks \in SeqsUpTo(UserBlocks, MaxBlocks) }
    /\ config = Config(1, 1)
    /\ openai_request = None
    /\ ProviderNew
    /\ NoHandler
    /\ NoHeartbeat
    /\ NoStreamYet

ContentSpec == ContentInit /\ [][RequestNext]_vars

(***************************************************************************)
(* C28: a user message in block form whose blocks map to exactly one part, *)
(* a text part, is translated to a message whose content is the text as a  *)
(* string; when its blocks map to no part, to several parts or to a single *)
(* image part, the content is the array of the parts.                      *)
(***************************************************************************)
\* The block maps to a part: a text, or an image whose source is base64
\* with a media type and data.
MapsToPart(block) ==
    \/ block.type = "text"
    \/ /\ block.type = "image"
       /\ Unwrap(block.source).type = Some(<<"b", "a", "s", "e", "6", "4">>)
       /\ IsSome(Unwrap(block.source).media_type)
       /\ IsSome(Unwrap(block.source).data)

ContentCollapse ==
    IsSome(openai_request) =>
        LET blocks == claude_request.messages[1].content.blocks
            mapped == SelectSeq(blocks, MapsToPart)
            message == Unwrap(openai_request).messages[1]
            content == Unwrap(message.content)
        IN  /\ Len(Unwrap(openai_request).messages) = 1
            /\ message.role = "user"
            /\ IF Len(mapped) = 1 /\ mapped[1].type = "text"
               THEN content.kind = "string" /\ content.text = mapped[1].text
               ELSE /\ content.kind = "array"
                    /\ Len(content.parts) = Len(mapped)
                    /\ \A k \in 1..Len(mapped) :
                          IF mapped[k].type = "text"
                          THEN /\ content.parts[k].type = "text"
                               /\ content.parts[k].text = mapped[k].text
                          ELSE content.parts[k].type = "image_url"

\* A message of a tool result, an image by URL and a text has been
\* translated to the bare text, and a message of a single base64 image to
\* an array; the state is of the first kind.
ContentCollapseWitness ==
    /\ IsSome(openai_request)
    /\ Len(claude_request.messages[1].content.blocks) = 3
    /\ claude_request.messages[1].content.blocks[3] = Text(<<"a">>)
    /\ claude_request.messages[1].content.blocks[1].type = "tool_result"
    /\ claude_request.messages[1].content.blocks[2].type = "image"
    /\ Unwrap(openai_request).messages[1].content = Some(ValueString(<<"a">>))

(***************************************************************************)
(* C29: a tool slot's content_block_start is emitted at the delta entry at *)
(* which an id and a function.name have both arrived for it, whether that  *)
(* entry carries the id alone, the name alone or both, and is not emitted  *)
(* while one of the two has not arrived: after every chunk a slot has      *)
(* started, with its start frame emitted, exactly if both have arrived.    *)
(***************************************************************************)
\* The first entry of es with or before which an id and a function.name
\* have both arrived.  0 if there is none.
CompletionEntry(es) ==
    LET Complete(j) ==
            /\ \E i \in 1..j : IsSome(es[i].id)
            /\ \E i \in 1..j : IsSome(es[i].function) /\ IsSome(Unwrap(es[i].function).name)
        cands == { j \in 1..Len(es) : Complete(j) }
    IN  IF cands = {} THEN 0 ELSE CHOOSE j \in cands : \A h \in cands : j <= h

StartAtCompletion ==
    \A k \in DOMAIN current_tool_calls :
        LET tool_call == current_tool_calls[k]
            es == EntriesFor(read, k)
        IN  /\ tool_call.started <=> CompletionEntry(es) # 0
            /\ tool_call.started =>
                  /\ StartEntry(es) = CompletionEntry(es)
                  /\ Cardinality(ToolStartsAt(tool_call.claude_index)) = 1
            /\ ~tool_call.started => ToolStartsAt(tool_call.claude_index) = {}

(***************************************************************************)
(* C30: the loop reads nothing after the first chunk with a finish_reason  *)
(* and nothing after the [DONE] sentinel: what the upstream still holds    *)
(* stays unread, and the only step that follows appends the postlude and   *)
(* changes nothing else.  The chunk with the finish_reason is handled in   *)
(* full before the exit: its text delta is emitted, its tool-call entries  *)
(* reach their slots, and its finish reason is mapped.                     *)
(***************************************************************************)
\* The item makes the loop exit: the sentinel, or a chunk whose first
\* choice carries a finish_reason.
IsExit(item) ==
    \/ item.kind = "done"
    \/ item.kind = "chunk" /\ item.choices = "some" /\ IsSome(item.finish_reason)

\* The loop has read an item that makes it exit.
ExitRead == read # << >> /\ IsExit(read[Len(read)])

\* The step reads a chunk with a finish_reason.
FinishChunkStep ==
    /\ Len(read') = Len(read) + 1
    /\ read'[Len(read')].kind = "chunk"
    /\ IsExit(read'[Len(read')])

LoopExit ==
    /\ [](\A i \in 1..(Len(read) - 1) : ~IsExit(read[i]))
    /\ [](ExitRead => pc \in {"closing", "done"})
    /\ [][ExitRead =>
            /\ pc = "closing" /\ pc' = "done"
            /\ UNCHANGED <<read, unread, current_tool_calls, tool_block_counter,
                           final_stop_reason, usage_data>>
            /\ SubSeq(frames', 1, Len(frames)) = frames
            /\ IsPostludeFor(SubSeq(frames', Len(frames) + 1, Len(frames')), frames)]_vars
    /\ [][FinishChunkStep =>
            LET chunk == read'[Len(read')]
                entries == IF IsSome(chunk.tool_calls) THEN Unwrap(chunk.tool_calls) ELSE << >>
            IN  /\ (IsSome(chunk.content) /\ Unwrap(chunk.content) # << >>) =>
                      /\ Len(frames') > Len(frames)
                      /\ frames'[Len(frames) + 1].type = "text_delta"
                      /\ frames'[Len(frames) + 1].text = Unwrap(chunk.content)
                /\ \A j \in 1..Len(entries) :
                      LET k == IF IsSome(entries[j].index) THEN Unwrap(entries[j].index) ELSE 0
                      IN  /\ k \in DOMAIN current_tool_calls'
                          /\ current_tool_calls'[k].started
                                <=> StartEntry(EntriesFor(read', k)) # 0
                          /\ current_tool_calls'[k].started =>
                                Cardinality({ i \in 1..Len(frames') :
                                    /\ IsToolStart(frames'[i])
                                    /\ frames'[i].index = current_tool_calls'[k].claude_index })
                                = 1
                /\ final_stop_reason' = ExpectedStopReason(Unwrap(chunk.finish_reason))]_vars

\* The generator has finished after a first chunk that carried a text, two
\* tool calls and a finish_reason: both tool calls have started, the text
\* was emitted, and the two lines after the chunk are unread.
LoopExitWitness ==
    /\ pc = "done"
    /\ Len(read) = 1
    /\ ExitRead
    /\ read[1].kind = "chunk"
    /\ Len(unread) = 2
    /\ \E i \in 1..Len(frames) : IsTextDelta(frames[i])
    /\ Cardinality(ToolStartPositions(frames)) = 2
    /\ final_stop_reason = "tool_use"

(***************************************************************************)
(* C31: final_stop_reason is written at most once per stream, in the step  *)
(* that reads a chunk with a finish_reason, and such a chunk is read at    *)
(* most once.  When the loop has exited without reading one (at [DONE], at *)
(* the upstream's end or at an upstream error), the message_delta reports  *)
(* end_turn.                                                               *)
(***************************************************************************)
\* The positions among items of the chunks whose finish_reason is processed.
FinishPositions(items) ==
    { i \in 1..Len(items) :
        /\ items[i].kind = "chunk"
        /\ items[i].choices = "some"
        /\ IsSome(items[i].finish_reason) }

StopReasonWrittenOnce ==
    /\ [](Cardinality(FinishPositions(read)) <= 1)
    /\ [](FinishPositions(read) = {} => final_stop_reason = "end_turn")
    /\ []((pc = "done" /\ FinishPositions(read) = {}) =>
             /\ Len(MessageDeltas) = 1
             /\ MessageDeltas[1].stop_reason = Some("end_turn"))
    /\ [][final_stop_reason' # final_stop_reason =>
             /\ FinishChunkStep
             /\ FinishPositions(read) = {}]_vars

\* The generator has finished after an upstream error that followed the
\* start of a tool block: no finish_reason was read, and the message_delta
\* reports end_turn.
StopReasonDefaultWitness ==
    /\ pc = "done"
    /\ read # << >>
    /\ read[Len(read)].kind = "err"
    /\ FinishPositions(read) = {}
    /\ ToolStartPositions(frames) # {}
    /\ Len(MessageDeltas) = 1
    /\ MessageDeltas[1].stop_reason = Some("end_turn")

(***************************************************************************)
(* The cancellation-aware translator on its own, as the handler leaves it: *)
(* the stream's request id r1 is in the provider's registry               *)
(* (create_chat_completion_stream inserts it and returns), and while the   *)
(* generator runs a task may call cancel_request and the client may go     *)
(* away.                                                                   *)
(***************************************************************************)
\* The task that calls cancel_request.
Canceller == CHOOSE t \in Tasks : TRUE

CancellationInit ==
    /\ read = << >>
    /\ unread = << >>
    /\ pc = "start"
    /\ frames = << >>
    /\ current_tool_calls = [k \in {} |-> NewToolCallState]
    /\ tool_block_counter = 0
    /\ final_stop_reason = "end_turn"
    /\ usage_data = ZeroUsage
    /\ heartbeat = Some(FALSE)
    /\ cancelled = FALSE
    /\ active_requests = [id \in {"r1"} |-> NewNotify]
    /\ lock = None
    /\ task = [t \in Tasks |-> IdleTask("none")]
    /\ NoHandler
    /\ NoRequestYet

CancellationNext ==
    \/ CancellationTranslator
    \/ Disconnect
    \/ CallCancel(Canceller)
    \/ LockGet(Canceller)
    \/ CancelGet(Canceller)

CancellationSpec == CancellationInit /\ [][CancellationNext]_vars

\* What the claim of termination assumes of the scheduling: the consumer
\* keeps pulling, so the generator runs its prelude and its closing events,
\* and the select! does not starve the stream branch, which is ready as
\* long as the loop runs (the upstream delivers an item or its end).
\* Nothing is assumed of the heartbeat, the cancel_request caller or the
\* client.
FairCancellationSpec ==
    /\ CancellationSpec
    /\ WF_vars(Prelude)
    /\ WF_vars(StreamBranch)
    /\ WF_vars(Postlude)

(***************************************************************************)
(* C32: in the cancellation-aware translator cancelled is false in every   *)
(* reachable state; a heartbeat tick emits no frame and changes nothing of *)
(* the translator's state, and neither does a step of a cancel_request     *)
(* call; the loop goes on to the closing events only in a step that reads  *)
(* [DONE], a chunk with a finish_reason or an upstream error, or that      *)
(* finds the upstream closed, and a client that goes away leaves the       *)
(* generator where it stands.                                              *)
(***************************************************************************)
\* The step leaves the loop for the closing events.
LoopExitStep == pc = "loop" /\ pc' = "closing"

MessageStopPositions == { i \in 1..Len(frames) : frames[i] = MessageStop }

Termination ==
    /\ [](pc # "dropped") => <>(pc = "done")
    /\ [](pc = "done" => MessageStopPositions = {Len(frames)})
    /\ [](pc # "done" => MessageStopPositions = {})
    /\ [][pc = "done" => UNCHANGED translator_vars]_vars

\* The generator has ended after the heartbeat had ticked and a
\* cancel_request for the stream's id had returned true: it read two
\* items and its last frame is the only message_stop.
TerminationWitness ==
    /\ pc = "done"
    /\ heartbeat = Some(TRUE)
    /\ task[Canceller].result = "true"
    /\ Len(read) = 2
    /\ MessageStopPositions = {Len(frames)}

(***************************************************************************)
(* C34: the backend request has no tool_choice exactly when the Claude     *)
(* request has none; a tool_choice of type auto or any becomes the string  *)
(* auto, one of type tool with a name becomes the function choice of that  *)
(* name, and every other tool_choice, among them one of type tool without  *)
(* a name and one whose type is unknown or missing, becomes the string     *)
(* auto.                                                                   *)
(***************************************************************************)
\* The string the member holds, if it is present and holds a string.
StringMember(member) ==
    IF IsSome(member) /\ Unwrap(member).kind = "string"
    THEN Some(Unwrap(member).text) ELSE None

\* The tool_choice the claim gives for a Claude tool_choice.
ExpectedToolChoice(tool_choice) ==
    LET type == StringMember(tool_choice.type)
        name == StringMember(tool_choice.name)
    IN  IF type = Some(<<"t", "o", "o", "l">>) /\ IsSome(name)
        THEN FunctionChoice(Unwrap(name))
        ELSE ValueString(<<"a", "u", "t", "o">>)

ToolChoiceMapping ==
    IsSome(openai_request) =>
        Unwrap(openai_request).tool_choice =
            IF IsSome(claude_request.tool_choice)
            THEN Some(ExpectedToolChoice(Unwrap(claude_request.tool_choice)))
            ELSE None

(***************************************************************************)
(* The two streaming translators side by side: from the state both start   *)
(* in, a step is a step of convert_openai_streaming_to_claude or a step of *)
(* convert_openai_streaming_to_claude_with_cancellation.                   *)
(***************************************************************************)
EquivalenceNext ==
    \/ Next
    \/ CancellationTranslator

EquivalenceSpec == CancellationInit /\ [][EquivalenceNext]_vars

ArgumentBuffering ==
    \A k \in DOMAIN current_tool_calls :
        LET t == current_tool_calls[k]
            es == EntriesFor(read, k)
            s == StartEntry(es)
        IN  /\ t.started <=> s # 0
            /\ t.args_buffer = IF s = 0 THEN << >> ELSE ArgumentsFromTo(es, s, Len(es))
            /\ t.json_sent <=> SendEntry(es) # 0
            /\ IF t.json_sent
               THEN /\ Cardinality(JsonDeltasAt(t.claude_index)) = 1
                    /\ \A i \in JsonDeltasAt(t.claude_index) :
                          frames[i].text = ArgumentsFromTo(es, s, SendEntry(es))
               ELSE \A i \in 1..Len(frames) :
                       IsInputJsonDelta(frames[i]) => frames[i].index # t.claude_index

\* A slot whose first entry carried a fragment before the slot had an id,
\* which started at its second entry, and whose delta was sent at a third:
\* the buffer holds the third entry's fragment only.
ArgumentBufferingWitness ==
    \E k \in DOMAIN current_tool_calls :
        LET t == current_tool_calls[k]
            es == EntriesFor(read, k)
        IN  /\ Len(es) = 3
            /\ ArgumentsOf(es[1]) # << >>
            /\ StartEntry(es) = 2
            /\ t.json_sent
            /\ t.args_buffer = ArgumentsOf(es[3])
            /\ t.args_buffer # ArgumentsFromTo(es, 1, 3)

(***************************************************************************)
(* C37 as stated: in the backend request the handler builds, also when the *)
(* history was truncated, each tool-role message comes right after an      *)
(* assistant message or another tool-role message, and there is one        *)
(* tool-role message for every tool_result block of the messages handed to *)
(* the request translator.                                                 *)
(***************************************************************************)
\* The messages of the request body that the truncation keeps.
KeptMessages ==
    LET original == http_request.body.messages
        limit == config.max_messages_limit
    IN  IF Len(original) > limit
        THEN SubSeq(original, Len(original) - limit + 1, Len(original))
        ELSE original

\* The positions of the tool-role messages of the backend request.
ToolPositions ==
    { k \in 1..Len(Unwrap(openai_request).messages) :
          Unwrap(openai_request).messages[k].role = "tool" }

\* Each tool-role message comes right after an assistant or tool message.
ToolMessagesFollowAssistant ==
    \A k \in ToolPositions :
        /\ k > 1
        /\ Unwrap(openai_request).messages[k - 1].role \in {"assistant", "tool"}

MessageWalkShape ==
    IsSome(openai_request) =>
        /\ ToolMessagesFollowAssistant
        /\ Cardinality(ToolPositions) =
              Sum([j \in 1..Len(KeptMessages) |-> NumToolResults(KeptMessages, j)])

(***************************************************************************)
(* C37 amended: each tool-role message comes right after an assistant      *)
(* message or another tool-role message, and there is one tool-role        *)
(* message for every tool_result block of a kept user message that comes   *)
(* right after an assistant message; the tool_result blocks of the other   *)
(* user messages, among them a first kept message whose assistant message  *)
(* the truncation dropped, yield no message.                               *)
(***************************************************************************)
FoldedToolResults ==
    IsSome(openai_request) =>
        /\ ToolMessagesFollowAssistant
        /\ Cardinality(ToolPositions) =
              Sum([j \in 1..Len(KeptMessages) |->
                      IF FoldedInto(KeptMessages, j)
                      THEN NumToolResults(KeptMessages, j) ELSE 0])

\* A history of three messages was cut to its last two, an assistant
\* message and a user message with two tool_result blocks: the backend
\* request is the assistant message and two tool-role messages.
FoldedToolResultsWitness ==
    /\ IsSome(openai_request)
    /\ Len(http_request.body.messages) = 3
    /\ config.max_messages_limit = 2
    /\ FoldedInto(KeptMessages, 2)
    /\ Len(Unwrap(openai_request).messages) = 3
    /\ ToolPositions = {2, 3}


\* ---------------------------------------------------------------------------
\* Concurrent complete calls on one provider
\* ---------------------------------------------------------------------------

\* An id left in the registry by an earlier streaming request, which never
\* removes its entry; no call in progress carries it.
StaleId == "r0"

\* The ids an entry of the registry may be stored under.
RegistryIds == RequestIds \cup { StaleId }

\* The registry before the calls: empty, or holding the stale entry.
CompleteInit ==
    /\ active_requests \in { [id \in {} |-> NewNotify], [id \in { StaleId } |-> NewNotify] }
    /\ lock = None
    /\ task = [t \in Tasks |-> IdleTask("none")]
    /\ NoHandler
    /\ NoHeartbeat
    /\ NoStreamYet
    /\ NoRequestYet

\* Callers make complete calls and cancel calls only.
CompleteNext ==
    \/ \E t \in Tasks : CallComplete(t)
    \/ \E t \in Tasks : CallCancel(t)
    \/ \E t \in Tasks : LockInsert(t)
    \/ \E t \in Tasks : Insert(t)
    \/ \E t \in Tasks : SendFails(t)
    \/ \E t \in Tasks : SendResponds(t)
    \/ \E t \in Tasks : ReadDone(t)
    \/ \E t \in Tasks : LockRemove(t)
    \/ \E t \in Tasks : Remove(t)
    \/ \E t \in Tasks : LockGet(t)
    \/ \E t \in Tasks : CancelGet(t)

CompleteSpec == CompleteInit /\ [][CompleteNext]_vars

\* The step is one of task t alone.
StepOf(t) ==
    /\ task'[t] # task[t]
    /\ \A u \in Tasks \ { t } : task'[u] = task[u]

\* The entry stored under id is the same before and after the step.
EntryKept(id) ==
    /\ (id \in DOMAIN active_requests') = (id \in DOMAIN active_requests)
    /\ id \in DOMAIN active_requests => active_requests'[id] = active_requests[id]

\* C38: for concurrent complete calls with pairwise distinct request ids on
\* one provider, in every interleaving an entry of the registry is inserted
\* and removed only by a step of the complete call that carries its id, a
\* cancel call changes no entry and disturbs only the tasks waiting on the
\* handle registered under its id, and whenever no call is in progress the
\* registry holds no entry under a request id of the calls, so that it is
\* back to what it was before them.
RegistryIsolation ==
    /\ [][\A id \in RegistryIds :
            EntryKept(id) \/ \E t \in Tasks : /\ task[t].op = "complete"
                                              /\ task[t].request_id = Some(id)
                                              /\ StepOf(t)]_vars
    /\ [][\A t \in Tasks :
            (task[t].op = "cancel" /\ task'[t] # task[t]) =>
               /\ active_requests' = active_requests
               /\ \A u \in Tasks \ { t } :
                     task'[u] # task[u] =>
                        /\ Unwrap(task[t].request_id) \in DOMAIN active_requests
                        /\ u \in active_requests[Unwrap(task[t].request_id)].waiters]_vars
    /\ []((\A t \in Tasks : task[t].pc = "idle") =>
             DOMAIN active_requests \cap RequestIds = {})

\* Two complete calls with distinct ids hold their entries at the same time,
\* next to the stale entry.
RegistryIsolationWitness ==
    /\ Cardinality({ t \in Tasks : task[t].op = "complete" /\ task[t].pc \in {"send", "read_text", "read_json"} }) >= 2
    /\ DOMAIN active_requests = RegistryIds

====
